---- MODULE Spec2Model ----
(***************************************************************************)
(* bitstream-go: a bit stream Reader over an io.Reader (reader.go) and a    *)
(* bit stream Writer over an io.Writer (writer.go).                         *)
(*                                                                          *)
(* Fixed-width unsigned integers (uint8/16/32/64) are words: the set of     *)
(* the bit positions in 0..W-1 (0 = least significant) that hold a 1, so    *)
(* that shifts drop the bits that leave the word exactly as Go's do.        *)
(* Bytes held in buffers, in the source and in the sink are numbers 0..255. *)
(***************************************************************************)
EXTENDS Integers, Sequences, FiniteSets, TLC

VARIABLES
    r,      \* the Reader: its fields and the io.Reader it wraps
    w,      \* the Writer: its fields and the io.Writer it wraps
    ret,    \* what the last public call returned, with the state it was called in
    hist,   \* history: the bits handed to the Writer so far, and the calls made
    pc      \* what the program does with the package, and how far it has got

vars == <<r, w, ret, hist, pc>>

(*************************** bounds of the model ***************************)
\* number of bytes the source holds
SrcLen == 9
\* number of source contents tried
NumContents == 2
\* largest ReaderOptions.BufferSize tried (0 selects the default)
MaxBufferSize == 1
\* largest short read of the source tried (0: the source fills the buffer)
MaxChunk == 1
\* how far past a type's width nBits is tried
Over == 1
\* largest nBits given to ReadNBits
MaxNBits == 18
\* number of public calls made on a Writer
MaxCalls == 2
\* number of values tried as the value written
NumValues == 2
\* number of bytes a stalling source hands out before the Read that returns
\* no byte and no error
StallAt == 2
\* number of bytes a failing source hands out before its Reads return an error
FailAt == 2
\* largest number of bytes a failing sink takes before its Writes fail
MaxRoom == 3
\* largest nBits given to forwardIndecies on its own
MaxForward == 24

(***************************** program constants **************************)
DefaultBufferSize == 1024

(********************************* words ***********************************)
Min(a, b) == IF a < b THEN a ELSE b

RECURSIVE Pow2(_)
Pow2(k) == IF k = 0 THEN 1 ELSE 2 * Pow2(k - 1)

\* the uint8 arithmetic of the shift counts and bit counts
U8(x) == x % 256

\* a W-bit word is the set of the positions 0..W-1 of its 1 bits
Zero(W) == {}

\* the W-bit word of a number 0 <= x < 2^31
ToWord(x, W) == {i \in 0..(Min(W, 31) - 1) : (x \div Pow2(i)) % 2 = 1}

RECURSIVE WordSum(_, _)
WordSum(v, k) ==
    IF k < 0 THEN 0 ELSE (IF k \in v THEN Pow2(k) ELSE 0) + WordSum(v, k - 1)

\* the number a word of at most 31 bits stands for
ToNat(v) == WordSum(v, 30)

\* v << k and v >> k on a W-bit word: a count of W or more gives 0
Shl(v, k, W) == {i + k : i \in {j \in v : j + k < W}}
Shr(v, k, W) == {i - k : i \in {j \in v : j >= k}}
Or(a, b, W) == a \cup b
And(a, b, W) == a \cap b

\* uintW(v): conversion between widths keeps the low bits
Conv(v, V, W) == {i \in v : i < W}

\* (1 << k) - 1 computed in a W-bit word: k ones, all ones when k >= W
LowMask(k, W) == IF k >= W THEN 0..(W - 1) ELSE 0..(k - 1)

\* the element of a set of one element: The({e : x \in {v}}) is e with x
\* standing for the value of v, which is worked out once
The(S) == CHOOSE y \in S : TRUE

(******************************** the source *******************************)
\* byte i (from 1) of the k-th source content tried
SrcByte(k, i) ==
    CASE k = 1 -> (18 + 34 * (i - 1)) % 256
      [] k = 2 -> (170 + 85 * (i - 1)) % 256
      [] OTHER -> (165 + 59 * k * (i - 1)) % 256

\* a source is [k, data, len, pos, chunk, stall, fail]: its content is the
\* k-th content tried, or the bytes data when k = 0; pos bytes of it have been
\* read
SrcAt(src, i) == IF src.k = 0 THEN src.data[i] ELSE SrcByte(src.k, i)

\* src.Read(buf) on a source that reports io.EOF once its data is used up; a
\* source with chunk > 0 returns at most chunk bytes per call; a source with
\* stall >= 0 returns once, when stall bytes or more of it have been read, no
\* byte and no error (io.Reader allows it: "nothing happened"); a source with
\* fail >= 0 returns, from when fail bytes or more of it have been read, no
\* byte and an error that is not io.EOF
SrcRead(src, cap) ==
    LET left == src.len - src.pos
        n == IF src.chunk = 0 THEN Min(cap, left) ELSE Min(Min(cap, src.chunk), left)
    IN IF src.stall >= 0 /\ src.pos >= src.stall
       THEN [n |-> 0, err |-> "nil", bytes |-> <<>>, src |-> [src EXCEPT !.stall = -1]]
       ELSE IF src.fail >= 0 /\ src.pos >= src.fail
       THEN [n |-> 0, err |-> "srcerr", bytes |-> <<>>, src |-> src]
       ELSE IF left = 0
       THEN [n |-> 0, err |-> "EOF", bytes |-> <<>>, src |-> src]
       ELSE [n |-> n, err |-> "nil",
             bytes |-> [i \in 1..n |-> SrcAt(src, src.pos + i)],
             src |-> [src EXCEPT !.pos = src.pos + n]]

(******************************** the Reader *******************************)
GetBufferSize(opt) == IF opt = 0 THEN DefaultBufferSize ELSE opt

\* offBoundary is a history of the refills, not a field of the struct: it is
\* TRUE once a buffer was replaced while the cursor was not at a byte boundary
NewReader(src, opt) ==
    [src |-> src, buf |-> <<>>, bufNil |-> TRUE, bufCap |-> 0, bufLen |-> 0,
     currByteIndex |-> 0, currBitIndex |-> 7, opt |-> opt, offBoundary |-> FALSE]

\* the cursor is at bit 7 of a byte at or past the valid length of the buffer
AtBoundary(rd) == rd.currBitIndex = 7 /\ rd.currByteIndex >= rd.bufLen

\* isBufEmpty taking the position just past the loaded bytes as still inside
isBufEmptyPastEnd(rd) == rd.bufNil \/ rd.currByteIndex > rd.bufLen

isBufEmpty(rd) == rd.bufNil \/ rd.currByteIndex >= rd.bufLen

\* fillBuf taking the whole new buffer, not the bytes read, as valid
fillBufWholeBuffer(rd) ==
    LET cap == GetBufferSize(rd.opt)
        got == SrcRead(rd.src, cap)
    IN IF got.err # "nil"
       THEN [r |-> [rd EXCEPT !.src = got.src], err |-> got.err]
       ELSE [r |-> [rd EXCEPT !.src = got.src, !.buf = got.bytes, !.bufNil = FALSE,
                               !.bufCap = cap, !.bufLen = cap,
                               !.currByteIndex = 0, !.currBitIndex = 7,
                               !.offBoundary = rd.offBoundary \/ ~AtBoundary(rd)],
             err |-> "nil"]

\* fillBuf storing the new buffer and the cursor before it looks at the error
fillBufStoresFirst(rd) ==
    LET cap == GetBufferSize(rd.opt)
        got == SrcRead(rd.src, cap)
    IN [r |-> [rd EXCEPT !.src = got.src, !.buf = got.bytes, !.bufNil = FALSE,
                           !.bufCap = cap, !.bufLen = got.n,
                           !.currByteIndex = 0, !.currBitIndex = 7,
                           !.offBoundary = rd.offBoundary \/ ~AtBoundary(rd)],
        err |-> got.err]

\* returns the reader and the error
fillBuf(rd) ==
    LET cap == GetBufferSize(rd.opt)
        got == SrcRead(rd.src, cap)
    IN IF got.err # "nil"
       THEN [r |-> [rd EXCEPT !.src = got.src], err |-> got.err]
       ELSE [r |-> [rd EXCEPT !.src = got.src, !.buf = got.bytes, !.bufNil = FALSE,
                               !.bufCap = cap, !.bufLen = got.n,
                               !.currByteIndex = 0, !.currBitIndex = 7,
                               !.offBoundary = rd.offBoundary \/ ~AtBoundary(rd)],
             err |-> "nil"]

fillBufIfNeeded(rd) ==
    IF ~isBufEmpty(rd) THEN [r |-> rd, err |-> "nil"] ELSE fillBuf(rd)

\* forwardIndecies taking the bits left in the byte, bit_index + 1, off nBits
forwardIndeciesFromRemaining(rd, nBits) ==
    IF nBits <= rd.currBitIndex
    THEN [rd EXCEPT !.currBitIndex = rd.currBitIndex - nBits]
    ELSE LET nb == U8(nBits - (rd.currBitIndex + 1))
             nBytes == (nb \div 8) + 1
             bitsToGo == nb % 8
         IN [rd EXCEPT !.currByteIndex = rd.currByteIndex + nBytes,
                       !.currBitIndex = 8 - bitsToGo]

forwardIndecies(rd, nBits) ==
    IF nBits <= rd.currBitIndex
    THEN [rd EXCEPT !.currBitIndex = rd.currBitIndex - nBits]
    ELSE LET nb == U8(nBits - rd.currBitIndex)
             nBytes == (nb \div 8) + 1
             bitsToGo == nb % 8
         IN [rd EXCEPT !.currByteIndex = rd.currByteIndex + nBytes,
                       !.currBitIndex = 8 - bitsToGo]

\* r.buf[i]: the bytes past bufLen are the zeros make() left; an index past
\* the buffer is a run-time panic
InBuf(rd, i) == ~rd.bufNil /\ i >= 0 /\ i < rd.bufCap
BufAt(rd, i) == IF i < Len(rd.buf) THEN rd.buf[i + 1] ELSE 0

Ok(rd, v) == [r |-> rd, val |-> v, err |-> "nil"]
Fail(rd, v, e) == [r |-> rd, val |-> v, err |-> e]

\* ReadBit leaving the bit where it was in the byte instead of shifting it down
ReadBitUnshifted(rd) ==
    The({ IF f.err # "nil" THEN Fail(f.r, Zero(8), f.err)
          ELSE IF ~InBuf(f.r, f.r.currByteIndex) THEN Fail(f.r, Zero(8), "panic")
          ELSE LET b == ToWord(BufAt(f.r, f.r.currByteIndex), 8)
                   mask == Shl(ToWord(1, 8), f.r.currBitIndex, 8)
               IN Ok(forwardIndecies(f.r, 1), And(b, mask, 8))
          : f \in {fillBufIfNeeded(rd)} })

ReadBit(rd) ==
    The({ IF f.err # "nil" THEN Fail(f.r, Zero(8), f.err)
          ELSE IF ~InBuf(f.r, f.r.currByteIndex) THEN Fail(f.r, Zero(8), "panic")
          ELSE LET b == ToWord(BufAt(f.r, f.r.currByteIndex), 8)
                   mask == Shl(ToWord(1, 8), f.r.currBitIndex, 8)
                   result == Shr(And(b, mask, 8), f.r.currBitIndex, 8)
               IN Ok(forwardIndecies(f.r, 1), result)
          : f \in {fillBufIfNeeded(rd)} })

mustReadNBitsInCurrentByte(rd, nBits) ==
    IF nBits = 0 THEN Ok(rd, Zero(8))
    ELSE IF rd.currBitIndex < nBits - 1 THEN Fail(rd, Zero(8), "panic")
    ELSE IF ~InBuf(rd, rd.currByteIndex) THEN Fail(rd, Zero(8), "panic")
    ELSE LET b == ToWord(BufAt(rd, rd.currByteIndex), 8)
             mask == LowMask(U8(rd.currBitIndex + 1), 8)
             result == Shr(And(b, mask, 8), U8(rd.currBitIndex - (nBits - 1)), 8)
         IN Ok(forwardIndecies(rd, nBits), result)

RECURSIVE ReadNBitsAsUint8(_, _)

\* ReadNBitsAsUint8 joining the two parts as (b1 << nBits1) | b2
ReadNBitsAsUint8JoinByFirst(rd, nBits) ==
    IF nBits = 0 THEN Ok(rd, Zero(8))
    ELSE IF nBits > 8 THEN Fail(rd, Zero(8), "width")
    ELSE The({
        IF f.err # "nil" THEN Fail(f.r, Zero(8), f.err)
        ELSE LET rb == U8(f.r.currBitIndex + 1)
                 nBits1 == rb
                 nBits2 == U8(nBits - rb)
             IN IF nBits <= rb
                THEN mustReadNBitsInCurrentByte(f.r, nBits)
                ELSE The({
                    IF b1.err # "nil" THEN b1
                    ELSE The({
                        IF b2.err # "nil" THEN Fail(b2.r, Zero(8), b2.err)
                        ELSE Ok(b2.r, Or(Shl(b1.val, nBits1, 8), b2.val, 8))
                        : b2 \in {ReadNBitsAsUint8(b1.r, nBits2)} })
                    : b1 \in {mustReadNBitsInCurrentByte(f.r, nBits1)} })
        : f \in {fillBufIfNeeded(rd)} })

\* f is what fillBufIfNeeded gave, b1 and b2 the two parts read
ReadNBitsAsUint8(rd, nBits) ==
    IF nBits = 0 THEN Ok(rd, Zero(8))
    ELSE IF nBits > 8 THEN Fail(rd, Zero(8), "width")
    ELSE The({
        IF f.err # "nil" THEN Fail(f.r, Zero(8), f.err)
        ELSE LET rb == U8(f.r.currBitIndex + 1)
                 nBits1 == rb
                 nBits2 == U8(nBits - rb)
             IN IF nBits <= rb
                THEN mustReadNBitsInCurrentByte(f.r, nBits)
                ELSE The({
                    IF b1.err # "nil" THEN b1
                    ELSE The({
                        IF b2.err # "nil" THEN Fail(b2.r, Zero(8), b2.err)
                        ELSE Ok(b2.r, Or(Shl(b1.val, nBits2, 8), b2.val, 8))
                        : b2 \in {ReadNBitsAsUint8(b1.r, nBits2)} })
                    : b1 \in {mustReadNBitsInCurrentByte(f.r, nBits1)} })
        : f \in {fillBufIfNeeded(rd)} })

\* the fragments of a wide read, in stream order: the first one from the
\* current byte, the others by ReadNBitsAsUint8; stops at the first error
RECURSIVE ReadRest(_, _, _, _)
ReadRest(rd, widths, k, vals) ==
    IF k > Len(widths) THEN [r |-> rd, vals |-> vals, err |-> "nil"]
    ELSE The({
        IF b.err # "nil" THEN [r |-> b.r, vals |-> vals, err |-> b.err]
        ELSE ReadRest(b.r, widths, k + 1, Append(vals, b.val))
        : b \in {ReadNBitsAsUint8(rd, widths[k])} })

\* ReadFragments putting the cursor back where it was when a later fragment
\* fails
ReadFragmentsRollBack(rd, widths) ==
    The({
        IF b1.err # "nil" THEN [r |-> b1.r, vals |-> <<>>, err |-> b1.err]
        ELSE The({
            IF fr.err # "nil"
            THEN [fr EXCEPT !.r = [fr.r EXCEPT !.buf = rd.buf, !.bufLen = rd.bufLen,
                                               !.currByteIndex = rd.currByteIndex,
                                               !.currBitIndex = rd.currBitIndex]]
            ELSE fr
            : fr \in {ReadRest(b1.r, widths, 2, <<b1.val>>)} })
        : b1 \in {mustReadNBitsInCurrentByte(rd, widths[1])} })

ReadFragments(rd, widths) ==
    The({
        IF b1.err # "nil" THEN [r |-> b1.r, vals |-> <<>>, err |-> b1.err]
        ELSE ReadRest(b1.r, widths, 2, <<b1.val>>)
        : b1 \in {mustReadNBitsInCurrentByte(rd, widths[1])} })

RECURSIVE SumFrom(_, _)
SumFrom(widths, k) == IF k > Len(widths) THEN 0 ELSE widths[k] + SumFrom(widths, k + 1)

\* the fragments shifted by the widths from their own on, not by those after
RECURSIVE AssembleOwnWidth(_, _, _, _)
AssembleOwnWidth(vals, widths, k, W) ==
    IF k > Len(vals) THEN Zero(W)
    ELSE Or(Shl(Conv(vals[k], 8, W), U8(SumFrom(widths, k)), W),
            AssembleOwnWidth(vals, widths, k + 1, W), W)

\* (uintW(b1) << (nBits2 + ... + nBitsK)) | ... | uintW(bK)
RECURSIVE Assemble(_, _, _, _)
Assemble(vals, widths, k, W) ==
    IF k > Len(vals) THEN Zero(W)
    ELSE Or(Shl(Conv(vals[k], 8, W), U8(SumFrom(widths, k + 1)), W),
            Assemble(vals, widths, k + 1, W), W)

\* the widths nBits1..nBitsK a wide read of nBits bits is cut into when rb
\* bits remain in the current byte
\* Widths16 taking the current byte to be whole: a first fragment of 8 bits
Widths16WholeFirstByte(nBits, rb) ==
    LET n2 == U8(nBits - 8)
    IN IF n2 > 8 THEN <<8, 8, U8(n2 - 8)>> ELSE <<8, n2, 0>>

Widths16(nBits, rb) ==
    LET n2 == U8(nBits - rb)
    IN IF n2 > 8 THEN <<rb, 8, U8(n2 - 8)>> ELSE <<rb, n2, 0>>

Widths32(nBits, rb) ==
    LET n3 == U8(U8(nBits - rb) - 8)
        n4 == U8(n3 - 8)
    IN IF n3 > 8
       THEN IF n4 > 8 THEN <<rb, 8, 8, 8, U8(n4 - 8)>> ELSE <<rb, 8, 8, n4, 0>>
       ELSE <<rb, 8, n3, 0, 0>>

Widths64(nBits, rb) ==
    LET n5 == U8(U8(nBits - rb) - 24)
        n6 == U8(n5 - 8)
        n7 == U8(n6 - 8)
        n8 == U8(n7 - 8)
    IN IF n5 > 8
       THEN IF n6 > 8
            THEN IF n7 > 8
                 THEN IF n8 > 8
                      THEN <<rb, 8, 8, 8, 8, 8, 8, 8, U8(n8 - 8)>>
                      ELSE <<rb, 8, 8, 8, 8, 8, 8, n8, 0>>
                 ELSE <<rb, 8, 8, 8, 8, 8, n7, 0, 0>>
            ELSE <<rb, 8, 8, 8, 8, n6, 0, 0, 0>>
       ELSE <<rb, 8, 8, 8, n5, 0, 0, 0, 0>>

\* the fragments read and put together, once the widths are known
ReadAssembled(rd, widths, W) ==
    The({
        IF fr.err # "nil" THEN Fail(fr.r, Zero(W), fr.err)
        ELSE Ok(fr.r, Assemble(fr.vals, widths, 1, W))
        : fr \in {ReadFragments(rd, widths)} })

Widen(o, V, W) == [r |-> o.r, val |-> Conv(o.val, V, W), err |-> o.err]

\* ReadNBitsAsUint16BE filling the buffer before it looks at nBits
ReadNBitsAsUint16BEFillFirst(rd, nBits) ==
    The({
        IF f.err # "nil" THEN Fail(f.r, Zero(16), f.err)
        ELSE IF nBits = 0 THEN Ok(f.r, Zero(16))
        ELSE IF nBits <= 8 THEN Widen(ReadNBitsAsUint8(f.r, nBits), 8, 16)
        ELSE IF nBits > 16 THEN Fail(f.r, Zero(16), "width")
        ELSE ReadAssembled(f.r, Widths16(nBits, U8(f.r.currBitIndex + 1)), 16)
        : f \in {fillBufIfNeeded(rd)} })

ReadNBitsAsUint16BE(rd, nBits) ==
    IF nBits = 0 THEN Ok(rd, Zero(16))
    ELSE IF nBits <= 8 THEN Widen(ReadNBitsAsUint8(rd, nBits), 8, 16)
    ELSE IF nBits > 16 THEN Fail(rd, Zero(16), "width")
    ELSE The({
        IF f.err # "nil" THEN Fail(f.r, Zero(16), f.err)
        ELSE ReadAssembled(f.r, Widths16(nBits, U8(f.r.currBitIndex + 1)), 16)
        : f \in {fillBufIfNeeded(rd)} })

\* ReadNBitsAsUint32BE cutting every nBits into its own fragments, also an
\* nBits that fits 16 bits
ReadNBitsAsUint32BEOwnFragments(rd, nBits) ==
    IF nBits = 0 THEN Ok(rd, Zero(32))
    ELSE IF nBits > 32 THEN Fail(rd, Zero(32), "width")
    ELSE The({
        IF f.err # "nil" THEN Fail(f.r, Zero(32), f.err)
        ELSE ReadAssembled(f.r, Widths32(nBits, U8(f.r.currBitIndex + 1)), 32)
        : f \in {fillBufIfNeeded(rd)} })

ReadNBitsAsUint32BE(rd, nBits) ==
    IF nBits = 0 THEN Ok(rd, Zero(32))
    ELSE IF nBits <= 16 THEN Widen(ReadNBitsAsUint16BE(rd, nBits), 16, 32)
    ELSE IF nBits > 32 THEN Fail(rd, Zero(32), "width")
    ELSE The({
        IF f.err # "nil" THEN Fail(f.r, Zero(32), f.err)
        ELSE ReadAssembled(f.r, Widths32(nBits, U8(f.r.currBitIndex + 1)), 32)
        : f \in {fillBufIfNeeded(rd)} })

ReadNBitsAsUint64BE(rd, nBits) ==
    IF nBits = 0 THEN Ok(rd, Zero(64))
    ELSE IF nBits <= 32 THEN Widen(ReadNBitsAsUint32BE(rd, nBits), 32, 64)
    ELSE IF nBits > 64 THEN Fail(rd, Zero(64), "width")
    ELSE The({
        IF f.err # "nil" THEN Fail(f.r, Zero(64), f.err)
        ELSE ReadAssembled(f.r, Widths64(nBits, U8(f.r.currBitIndex + 1)), 64)
        : f \in {fillBufIfNeeded(rd)} })

\* v - 1 on a word
Dec(v, W) ==
    {i \in 0..(W - 1) : IF \A j \in 0..(i - 1) : j \notin v THEN i \notin v ELSE i \in v}
Not(v, W) == (0..(W - 1)) \ v

\* ReadNBitsAsInt32BE without the extension of the sign
ReadNBitsAsInt32BEUnsigned(rd, nBits) == ReadNBitsAsUint32BE(rd, nBits)

\* the int32 result is the 32-bit word of its two's complement
ReadNBitsAsInt32BE(rd, nBits) ==
    The({
        IF v.err # "nil" THEN Fail(v.r, Zero(32), v.err)
        ELSE LET msb == Shl(ToWord(1, 32), U8(nBits - 1), 32)
             IN IF And(v.val, msb, 32) = Zero(32) THEN v
                ELSE LET f == And(LowMask(32, 32), Not(Dec(msb, 32), 32), 32)
                     IN Ok(v.r, Or(f, v.val, 32))
        : v \in {ReadNBitsAsUint32BE(rd, nBits)} })

\* ---- ReadNBits ----
Bytes(ws) == [i \in 1..Len(ws) |-> ToNat(ws[i])]

\* for nBits >= 8 { ... }: st holds the reader, nBits, tempByte and result
RECURSIVE FullBytes(_, _)
FullBytes(st, tempBit) ==
    IF st.nBits < 8 THEN st
    ELSE The({
        IF f.err # "nil" THEN [st EXCEPT !.r = f.r, !.err = f.err]
        ELSE The({
            IF b.err # "nil" THEN [st EXCEPT !.r = b.r, !.err = b.err]
            ELSE LET b1 == Shr(b.val, tempBit, 8)
                     b2 == Shl(b.val, U8(8 - tempBit), 8)
                 IN FullBytes([r |-> b.r, nBits |-> U8(st.nBits - 8),
                               tempByte |-> b2,
                               result |-> Append(st.result, Or(st.tempByte, b1, 8)),
                               err |-> "nil"], tempBit)
            : b \in {mustReadNBitsInCurrentByte(f.r, 8)} })
        : f \in {fillBufIfNeeded(st.r)} })

\* LastFragment putting all of the last fragment into the byte being made
LastFragmentOneByte(st, tempBit, padOne) ==
    IF st.nBits > 0
    THEN The({
        IF f.err # "nil" THEN [st EXCEPT !.r = f.r, !.err = f.err]
        ELSE The({
            IF b.err # "nil" THEN [st EXCEPT !.r = b.r, !.err = b.err]
            ELSE LET sh == U8(st.nBits - U8(8 - tempBit))
                     b1 == Shr(b.val, sh, 8)
                 IN [st EXCEPT !.r = b.r,
                               !.result = Append(st.result, Or(st.tempByte, b1, 8))]
            : b \in {mustReadNBitsInCurrentByte(f.r, st.nBits)} })
        : f \in {fillBufIfNeeded(st.r)} })
    ELSE IF tempBit > 0
         THEN [st EXCEPT !.result = Append(st.result, st.tempByte)]
         ELSE st

\* if nBits > 0 { ... } else { ... }
LastFragment(st, tempBit, padOne) ==
    IF st.nBits > 0
    THEN The({
        IF f.err # "nil" THEN [st EXCEPT !.r = f.r, !.err = f.err]
        ELSE The({
            IF b.err # "nil" THEN [st EXCEPT !.r = b.r, !.err = b.err]
            ELSE LET bitsToRead == st.nBits
                     sh == U8(bitsToRead - U8(8 - tempBit))
                     b1 == Shr(b.val, sh, 8)
                     b2 == Shl(b.val, U8(8 - sh), 8)
                     res1 == Append(st.result, Or(st.tempByte, b1, 8))
                     b2p == IF padOne
                            THEN Or(b2, Shr(LowMask(8, 8), tempBit, 8), 8)
                            ELSE b2
                 IN [st EXCEPT !.r = b.r,
                               !.result = IF st.nBits > U8(8 - tempBit)
                                          THEN Append(res1, b2p) ELSE res1]
            : b \in {mustReadNBitsInCurrentByte(f.r, st.nBits)} })
        : f \in {fillBufIfNeeded(st.r)} })
    ELSE IF tempBit > 0
         THEN [st EXCEPT !.result = Append(st.result, st.tempByte)]
         ELSE st

NilOpt == [AlignRight |-> FALSE, PadOne |-> FALSE, isNil |-> TRUE]
ReadOptions == {NilOpt} \cup
    {[AlignRight |-> a, PadOne |-> p, isNil |-> FALSE] : a \in BOOLEAN, p \in BOOLEAN}

\* the options tried
OptionsTried == {o \in ReadOptions : ~(o.AlignRight /\ o.PadOne) /\ (o.isNil \/ o.AlignRight \/ o.PadOne)}

\* the bytes after the first fragment t: the loop, the last fragment, the return
ReadNBitsRest(t, nBits, bitsToRead, padOne, alignRight) ==
    LET tempByte == Shl(t.val, U8(8 - bitsToRead), 8)
        full == (bitsToRead = 8)
        tempBit == IF full THEN 0 ELSE bitsToRead
        st0 == [r |-> t.r, nBits |-> U8(nBits - bitsToRead),
                tempByte |-> IF full THEN Zero(8) ELSE tempByte,
                result |-> IF full THEN <<tempByte>> ELSE <<>>,
                err |-> "nil"]
    IN The({
        IF st1.err # "nil" THEN Fail(st1.r, <<>>, st1.err)
        ELSE The({
            IF st2.err # "nil" THEN Fail(st2.r, <<>>, st2.err)
            ELSE IF alignRight THEN Fail(st2.r, <<>>, "notimpl")
            ELSE Ok(st2.r, Bytes(st2.result))
            : st2 \in {LastFragment(st1, tempBit, padOne)} })
        : st1 \in {FullBytes(st0, tempBit)} })

\* ReadNBits filling the buffer before it looks at nBits
ReadNBitsFillFirst(rd, nBits, opt) ==
    The({
        IF f.err # "nil" THEN Fail(f.r, <<>>, f.err)
        ELSE IF nBits = 0 THEN Ok(f.r, <<>>)
        ELSE LET padOne == ~opt.isNil /\ opt.PadOne
                 alignRight == ~opt.isNil /\ opt.AlignRight
                 rb == U8(f.r.currBitIndex + 1)
                 bitsToRead == IF nBits <= rb THEN nBits ELSE rb
             IN The({
                 IF t.err # "nil" THEN Fail(t.r, <<>>, t.err)
                 ELSE ReadNBitsRest(t, nBits, bitsToRead, padOne, alignRight)
                 : t \in {mustReadNBitsInCurrentByte(f.r, bitsToRead)} })
        : f \in {fillBufIfNeeded(rd)} })

\* ReadNBits turning AlignRight down before it reads anything
ReadNBitsOptionFirst(rd, nBits, opt) ==
    IF nBits = 0 THEN Ok(rd, <<>>)
    ELSE IF ~opt.isNil /\ opt.AlignRight THEN Fail(rd, <<>>, "notimpl")
    ELSE The({
        IF f.err # "nil" THEN Fail(f.r, <<>>, f.err)
        ELSE LET padOne == ~opt.isNil /\ opt.PadOne
                 rb == U8(f.r.currBitIndex + 1)
                 bitsToRead == IF nBits <= rb THEN nBits ELSE rb
             IN The({
                 IF t.err # "nil" THEN Fail(t.r, <<>>, t.err)
                 ELSE ReadNBitsRest(t, nBits, bitsToRead, padOne, FALSE)
                 : t \in {mustReadNBitsInCurrentByte(f.r, bitsToRead)} })
        : f \in {fillBufIfNeeded(rd)} })

\* the result is the byte slice returned (<<>> for nil)
ReadNBits(rd, nBits, opt) ==
    IF nBits = 0 THEN Ok(rd, <<>>)
    ELSE The({
        IF f.err # "nil" THEN Fail(f.r, <<>>, f.err)
        ELSE LET padOne == ~opt.isNil /\ opt.PadOne
                 alignRight == ~opt.isNil /\ opt.AlignRight
                 rb == U8(f.r.currBitIndex + 1)
                 bitsToRead == IF nBits <= rb THEN nBits ELSE rb
             IN The({
                 IF t.err # "nil" THEN Fail(t.r, <<>>, t.err)
                 ELSE ReadNBitsRest(t, nBits, bitsToRead, padOne, alignRight)
                 : t \in {mustReadNBitsInCurrentByte(f.r, bitsToRead)} })
        : f \in {fillBufIfNeeded(rd)} })

(******************************** the Writer *******************************)
\* how the io.Writer behind dst behaves: it takes room bytes (every byte when
\* room is -1) and then fails each Write in the way mode says
SoundSink == [room |-> -1, mode |-> "err"]

\* the ways a Write fails: it returns 0 and an error; it returns 0 and no
\* error; it takes the byte and returns 1 and an error
SinkModes == {"err", "short", "taken"}

\* dst.Write(p) with a one-byte p; dst is the bytes the sink has taken
DstWrite(dst, sink, byte) ==
    IF sink.room < 0 \/ Len(dst) < sink.room
    THEN [n |-> 1, err |-> "nil", dst |-> Append(dst, byte)]
    ELSE CASE sink.mode = "err" -> [n |-> 0, err |-> "dsterr", dst |-> dst]
           [] sink.mode = "short" -> [n |-> 0, err |-> "nil", dst |-> dst]
           [] OTHER -> [n |-> 1, err |-> "dsterr", dst |-> Append(dst, byte)]

\* currByte is a uint8 word, dst the bytes the sink has taken
NewWriter(dst) ==
    [dst |-> dst, sink |-> SoundSink, currByte |-> Zero(8), currBitIndex |-> 7]

WOk(wr) == [w |-> wr, err |-> "nil"]
WFail(wr, e) == [w |-> wr, err |-> e]

\* Flush clearing the accumulator whether the sink took the byte or not
FlushResetsOnFailure(wr) ==
    The({
        IF wrote.err # "nil"
        THEN WFail([wr EXCEPT !.dst = wrote.dst, !.currByte = Zero(8), !.currBitIndex = 7],
                   wrote.err)
        ELSE IF wrote.n # 1
        THEN WFail([wr EXCEPT !.dst = wrote.dst, !.currByte = Zero(8), !.currBitIndex = 7],
                   "short")
        ELSE WOk([wr EXCEPT !.dst = wrote.dst, !.currByte = Zero(8), !.currBitIndex = 7])
        : wrote \in {DstWrite(wr.dst, wr.sink, ToNat(wr.currByte))} })

\* Flush leaving the byte written in the accumulator
FlushKeepsByte(wr) ==
    The({
        IF wrote.err # "nil" THEN WFail([wr EXCEPT !.dst = wrote.dst], wrote.err)
        ELSE IF wrote.n # 1 THEN WFail([wr EXCEPT !.dst = wrote.dst], "short")
        ELSE WOk([wr EXCEPT !.dst = wrote.dst, !.currBitIndex = 7])
        : wrote \in {DstWrite(wr.dst, wr.sink, ToNat(wr.currByte))} })

Flush(wr) ==
    The({
        IF wrote.err # "nil" THEN WFail([wr EXCEPT !.dst = wrote.dst], wrote.err)
        ELSE IF wrote.n # 1 THEN WFail([wr EXCEPT !.dst = wrote.dst], "short")
        ELSE WOk([wr EXCEPT !.dst = wrote.dst, !.currByte = Zero(8), !.currBitIndex = 7])
        : wrote \in {DstWrite(wr.dst, wr.sink, ToNat(wr.currByte))} })

\* WriteBit OR-ing the bit in at bit 0, not at bit_index
WriteBitAtLsb(wr, bit) ==
    LET lsb == And(bit, ToWord(1, 8), 8)
        w1 == IF lsb # Zero(8)
              THEN [wr EXCEPT !.currByte = Or(wr.currByte, lsb, 8)]
              ELSE wr
    IN IF wr.currBitIndex > 0
       THEN WOk([w1 EXCEPT !.currBitIndex = wr.currBitIndex - 1])
       ELSE Flush(w1)

\* WriteBit storing the bit as the accumulator instead of OR-ing it in
WriteBitOverwrites(wr, bit) ==
    LET lsb == And(bit, ToWord(1, 8), 8)
        w1 == IF lsb # Zero(8)
              THEN [wr EXCEPT !.currByte = Shl(lsb, wr.currBitIndex, 8)]
              ELSE wr
    IN IF wr.currBitIndex > 0
       THEN WOk([w1 EXCEPT !.currBitIndex = wr.currBitIndex - 1])
       ELSE Flush(w1)

WriteBit(wr, bit) ==
    LET lsb == And(bit, ToWord(1, 8), 8)
        w1 == IF lsb # Zero(8)
              THEN [wr EXCEPT !.currByte = Or(wr.currByte, Shl(lsb, wr.currBitIndex, 8), 8)]
              ELSE wr
    IN IF wr.currBitIndex > 0
       THEN WOk([w1 EXCEPT !.currBitIndex = wr.currBitIndex - 1])
       ELSE Flush(w1)

\* WriteNBitsOfUint8 without the mask that drops the bits of val above nBits
WriteNBitsOfUint8Unmasked(wr, nBits, val) ==
    IF nBits = 0 THEN WOk(wr)
    ELSE IF nBits > 8 THEN WFail(wr, "width")
    ELSE LET wb == U8(wr.currBitIndex + 1)
         IN IF nBits <= wb
            THEN LET w1 == [wr EXCEPT !.currByte =
                               Or(wr.currByte, Shl(val, U8(wb - nBits), 8), 8)]
                 IN IF nBits = wb THEN Flush(w1)
                    ELSE WOk([w1 EXCEPT !.currBitIndex = U8(wr.currBitIndex - nBits)])
            ELSE LET b1 == Shr(val, U8(nBits - wb), 8)
                     b2 == Shl(val, U8(8 - U8(nBits - wb)), 8)
                 IN The({
                     IF f.err # "nil" THEN f
                     ELSE WOk([f.w EXCEPT !.currByte = b2,
                                          !.currBitIndex = U8(7 - U8(nBits - wb))])
                     : f \in {Flush([wr EXCEPT !.currByte = Or(wr.currByte, b1, 8)])} })

WriteNBitsOfUint8(wr, nBits, val) ==
    IF nBits = 0 THEN WOk(wr)
    ELSE IF nBits > 8 THEN WFail(wr, "width")
    ELSE LET wb == U8(wr.currBitIndex + 1)
         IN IF nBits <= wb
            THEN LET mask == LowMask(nBits, 8)
                     w1 == [wr EXCEPT !.currByte =
                               Or(wr.currByte, Shl(And(val, mask, 8), U8(wb - nBits), 8), 8)]
                 IN IF nBits = wb THEN Flush(w1)
                    ELSE WOk([w1 EXCEPT !.currBitIndex = U8(wr.currBitIndex - nBits)])
            ELSE LET b1 == Shr(val, U8(nBits - wb), 8)
                     b2 == Shl(val, U8(8 - U8(nBits - wb)), 8)
                     b1Mask == LowMask(U8(wr.currBitIndex + 1), 8)
                 IN The({
                     IF f.err # "nil" THEN f
                     ELSE WOk([f.w EXCEPT !.currByte = b2,
                                          !.currBitIndex = U8(7 - U8(nBits - wb))])
                     : f \in {Flush([wr EXCEPT !.currByte = Or(wr.currByte, And(b1, b1Mask, 8), 8)])} })

\* the part of val left where it is in the byte, not moved to the top
PartUnaligned(val, bits, down, W) ==
    LET mask == Shl(LowMask(bits, W), down, W)
    IN Conv(Shr(And(val, mask, W), down, W), W, 8)

\* uint8(((val & mask) >> down) << (8 - bits)) with mask = ((1 << bits) - 1) << down:
\* the part of val that is bits wide and ends down bits above bit 0, left aligned
Part(val, bits, down, W) ==
    LET mask == Shl(LowMask(bits, W), down, W)
    IN Conv(Shl(Shr(And(val, mask, W), down, W), U8(8 - bits), W), W, 8)

\* WriteNBitsOfUint16 leaving a second byte that is full in the accumulator
WriteNBitsOfUint16KeepsFullByte(wr, nBits, val) ==
    IF nBits = 0 THEN WOk(wr)
    ELSE IF nBits <= 8 THEN WriteNBitsOfUint8(wr, nBits, Conv(val, 16, 8))
    ELSE IF nBits > 16 THEN WFail(wr, "width")
    ELSE LET wb == U8(wr.currBitIndex + 1)
             b1Bits == wb
             raw2 == U8(nBits - b1Bits)
             b3Bits == IF raw2 > 8 THEN U8(raw2 - 8) ELSE 0
             b2Bits == IF raw2 > 8 THEN 8 ELSE raw2
             b1Mask == Shl(LowMask(b1Bits, 16), U8(b2Bits + b3Bits), 16)
             b1 == Conv(Shr(And(val, b1Mask, 16), U8(b2Bits + b3Bits), 16), 16, 8)
             b2 == Part(val, b2Bits, b3Bits, 16)
             b3 == Part(val, b3Bits, 0, 16)
         IN The({
             IF f1.err # "nil" THEN f1
             ELSE IF b3Bits = 0
             THEN WOk([f1.w EXCEPT !.currByte = b2, !.currBitIndex = U8(7 - b2Bits)])
             ELSE The({
                 IF f2.err # "nil" THEN f2
                 ELSE WOk([f2.w EXCEPT !.currByte = b3, !.currBitIndex = U8(7 - b3Bits)])
                 : f2 \in {Flush([f1.w EXCEPT !.currByte = b2])} })
             : f1 \in {Flush([wr EXCEPT !.currByte = Or(wr.currByte, b1, 8)])} })

\* f1 and f2 are what the Flush after the first and the second byte gave
WriteNBitsOfUint16(wr, nBits, val) ==
    IF nBits = 0 THEN WOk(wr)
    ELSE IF nBits <= 8 THEN WriteNBitsOfUint8(wr, nBits, Conv(val, 16, 8))
    ELSE IF nBits > 16 THEN WFail(wr, "width")
    ELSE LET wb == U8(wr.currBitIndex + 1)
             b1Bits == wb
             raw2 == U8(nBits - b1Bits)
             b3Bits == IF raw2 > 8 THEN U8(raw2 - 8) ELSE 0
             b2Bits == IF raw2 > 8 THEN 8 ELSE raw2
             b1Mask == Shl(LowMask(b1Bits, 16), U8(b2Bits + b3Bits), 16)
             b1 == Conv(Shr(And(val, b1Mask, 16), U8(b2Bits + b3Bits), 16), 16, 8)
             b2 == Part(val, b2Bits, b3Bits, 16)
             b3 == Part(val, b3Bits, 0, 16)
         IN The({
             IF f1.err # "nil" THEN f1
             ELSE IF b3Bits = 0
             THEN IF b2Bits = 8 THEN Flush([f1.w EXCEPT !.currByte = b2])
                  ELSE WOk([f1.w EXCEPT !.currByte = b2, !.currBitIndex = U8(7 - b2Bits)])
             ELSE The({
                 IF f2.err # "nil" THEN f2
                 ELSE WOk([f2.w EXCEPT !.currByte = b3, !.currBitIndex = U8(7 - b3Bits)])
                 : f2 \in {Flush([f1.w EXCEPT !.currByte = b2])} })
             : f1 \in {Flush([wr EXCEPT !.currByte = Or(wr.currByte, b1, 8)])} })

\* the fourth and fifth byte of WriteNBitsOfUint32, after the third byte's
\* step gave f3
WriteLast32(f3, b3Bits, b4Bits, b5Bits, b4, b5) ==
    IF f3.err # "nil" THEN f3
    ELSE IF b4Bits = 0
    THEN WOk(IF b3Bits # 8
             THEN [f3.w EXCEPT !.currBitIndex = U8(7 - b3Bits)]
             ELSE f3.w)
    ELSE The({
        IF f4.err # "nil" THEN f4
        ELSE IF b5Bits = 0
        THEN WOk(IF b4Bits # 8
                 THEN [f4.w EXCEPT !.currBitIndex = U8(7 - b4Bits)]
                 ELSE f4.w)
        ELSE WOk([f4.w EXCEPT !.currByte = b5, !.currBitIndex = U8(7 - b5Bits)])
        : f4 \in {IF b4Bits = 8 THEN Flush([f3.w EXCEPT !.currByte = b4])
                  ELSE WOk([f3.w EXCEPT !.currByte = b4])} })

WriteNBitsOfUint32(wr, nBits, val) ==
    IF nBits = 0 THEN WOk(wr)
    ELSE IF nBits <= 16 THEN WriteNBitsOfUint16(wr, nBits, Conv(val, 32, 16))
    ELSE IF nBits > 32 THEN WFail(wr, "width")
    ELSE LET wb == U8(wr.currBitIndex + 1)
             b1Bits == wb
             b2Bits == 8
             raw3 == U8(U8(nBits - 8) - wb)
             raw4 == U8(raw3 - 8)
             b3Bits == IF raw3 > 8 THEN 8 ELSE raw3
             b4Bits == IF raw3 > 8 THEN (IF raw4 > 8 THEN 8 ELSE raw4) ELSE 0
             b5Bits == IF raw3 > 8 /\ raw4 > 8 THEN U8(raw4 - 8) ELSE 0
             b1Mask == Shl(LowMask(b1Bits, 32), U8(b2Bits + b3Bits + b4Bits + b5Bits), 32)
             b1 == Conv(Shr(And(val, b1Mask, 32), U8(b2Bits + b3Bits + b4Bits + b5Bits), 32), 32, 8)
             b2 == Part(val, b2Bits, U8(b3Bits + b4Bits + b5Bits), 32)
             b3 == Part(val, b3Bits, U8(b4Bits + b5Bits), 32)
             b4 == Part(val, b4Bits, b5Bits, 32)
             b5 == Part(val, b5Bits, 0, 32)
         IN The({
             IF f1.err # "nil" THEN f1
             ELSE The({
                 IF f2.err # "nil" THEN f2
                 ELSE WriteLast32(IF b3Bits = 8 THEN Flush([f2.w EXCEPT !.currByte = b3])
                                  ELSE WOk([f2.w EXCEPT !.currByte = b3]),
                                  b3Bits, b4Bits, b5Bits, b4, b5)
                 : f2 \in {Flush([f1.w EXCEPT !.currByte = b2])} })
             : f1 \in {Flush([wr EXCEPT !.currByte = Or(wr.currByte, b1, 8)])} })

\* WriteNBitsOfUint64 (writeBitsOfUint64 of the specification, section 4.2):
\* the high wb bits go into the current byte, which is flushed, and the rest
\* is split the same way; a last partial byte stays pending
RECURSIVE WriteSplit(_, _, _, _)
WriteSplit(wr, nBits, val, W) ==
    IF nBits = 0 THEN WOk(wr)
    ELSE LET wb == wr.currBitIndex + 1
         IN IF nBits <= wb
            THEN LET part == Conv(Shl(And(val, LowMask(nBits, W), W), wb - nBits, W), W, 8)
                     w1 == [wr EXCEPT !.currByte = Or(wr.currByte, part, 8)]
                 IN IF nBits = wb THEN Flush(w1)
                    ELSE WOk([w1 EXCEPT !.currBitIndex = wr.currBitIndex - nBits])
            ELSE LET part == Conv(And(Shr(val, nBits - wb, W), LowMask(wb, W), W), W, 8)
                 IN The({
                     IF f.err # "nil" THEN f
                     ELSE WriteSplit(f.w, nBits - wb, val, W)
                     : f \in {Flush([wr EXCEPT !.currByte = Or(wr.currByte, part, 8)])} })

WriteNBitsOfUint64(wr, nBits, val) ==
    IF nBits = 0 THEN WOk(wr)
    ELSE IF nBits > 64 THEN WFail(wr, "width")
    ELSE IF nBits <= 32 THEN WriteNBitsOfUint32(wr, nBits, Conv(val, 64, 32))
    ELSE WriteSplit(wr, nBits, val, 64)

\* WriteNBits (writeBits of the specification, section 4.2; TestWriteNBits):
\* nBits bits from the most significant end of the byte array
RECURSIVE WriteNBits(_, _, _)
WriteNBits(wr, nBits, bytes) ==
    IF nBits = 0 THEN WOk(wr)
    ELSE IF nBits >= 8
    THEN The({
        IF f.err # "nil" THEN f ELSE WriteNBits(f.w, nBits - 8, Tail(bytes))
        : f \in {WriteNBitsOfUint8(wr, 8, ToWord(Head(bytes), 8))} })
    ELSE WriteNBitsOfUint8(wr, nBits, Shr(ToWord(Head(bytes), 8), 8 - nBits, 8))

(********************************* actions *********************************)
NoRet == [op |-> "none"]
NoHist == [bits |-> <<>>, calls |-> 0, flushes |-> 0]

Source(k, len, chunk) ==
    [k |-> k, data |-> <<>>, len |-> len, pos |-> 0, chunk |-> chunk, stall |-> -1,
     fail |-> -1]

\* the lengths tried for the source: one byte, and SrcLen bytes
SrcLens == {1, SrcLen}

Init ==
    /\ \E k \in 1..NumContents, len \in SrcLens, chunk \in 0..MaxChunk,
          opt \in 0..MaxBufferSize :
           r = NewReader(Source(k, len, chunk), opt)
    /\ w = NewWriter(<<>>)
    /\ ret = NoRet
    /\ hist = NoHist
    /\ pc = [session |-> "reader"]

\* a public Reader method returns: the Reader is left as the method left it
Returned(op, nBits, o) ==
    /\ pc.session = "reader"
    /\ r' = o.r
    /\ ret' = [op |-> op, nBits |-> nBits, val |-> o.val, err |-> o.err, pre |-> r]
    /\ UNCHANGED <<w, hist, pc>>

CallReadBit ==
    /\ ret = NoRet
    /\ Returned("ReadBit", 1, ReadBit(r))

CallReadNBitsAsUint8 ==
    /\ ret = NoRet
    /\ \E nBits \in 0..(8 + Over) :
           Returned("ReadNBitsAsUint8", nBits, ReadNBitsAsUint8(r, nBits))

CallReadNBitsAsUint16BE ==
    /\ ret = NoRet
    /\ \E nBits \in 0..(16 + Over) :
           Returned("ReadNBitsAsUint16BE", nBits, ReadNBitsAsUint16BE(r, nBits))

CallReadNBitsAsUint32BE ==
    /\ ret = NoRet
    /\ \E nBits \in 0..(32 + Over) :
           Returned("ReadNBitsAsUint32BE", nBits, ReadNBitsAsUint32BE(r, nBits))

CallReadNBitsAsUint64BE ==
    /\ ret = NoRet
    /\ \E nBits \in 0..(64 + Over) :
           Returned("ReadNBitsAsUint64BE", nBits, ReadNBitsAsUint64BE(r, nBits))

CallReadNBitsAsInt32BE ==
    /\ ret = NoRet
    /\ \E nBits \in 0..(32 + Over) :
           Returned("ReadNBitsAsInt32BE", nBits, ReadNBitsAsInt32BE(r, nBits))

CallReadNBits ==
    /\ ret = NoRet
    /\ pc.session = "reader"
    /\ \E nBits \in 0..MaxNBits, opt \in OptionsTried :
           \E o \in {ReadNBits(r, nBits, opt)} :
               /\ r' = o.r
               /\ ret' = [op |-> "ReadNBits", nBits |-> nBits, opt |-> opt,
                          val |-> o.val, err |-> o.err, pre |-> r]
               /\ UNCHANGED <<w, hist, pc>>

\* the caller takes the returned value and error
TakeResult ==
    /\ ret # NoRet
    /\ pc.session \in {"reader", "writer"}
    /\ ret' = NoRet
    /\ UNCHANGED <<r, w, hist, pc>>

(* ---- the Writer's calls ---- *)
\* the values tried as the value written: 0x89abcdef, 0xffffffff, 0x5ac3960f
ValueTried(k) ==
    CASE k = 1 -> {0, 1, 2, 3, 5, 6, 7} \cup {8, 10, 11, 14, 15} \cup {16, 17, 19, 21, 23}
                  \cup {24, 27, 31}
      [] k = 2 -> 0..31
      [] OTHER -> {0, 1, 2, 3, 9, 10, 12, 15, 16, 17, 22, 23, 25, 27, 28, 30}

\* the arguments tried as WriteBit's bit: 0, 1, 0xfe, 0xff
BitsTried == {{}, {0}, 1..7, 0..7}

\* the low nBits bits of a word, most significant first
RECURSIVE LowBits(_, _)
LowBits(val, nBits) ==
    IF nBits = 0 THEN <<>>
    ELSE <<IF (nBits - 1) \in val THEN 1 ELSE 0>> \o LowBits(val, nBits - 1)

\* a public Writer method returns; a call that returned no error has written
\* the low nBits bits of val
WReturned(op, nBits, val, o) ==
    /\ pc.session = "writer"
    /\ hist.calls < MaxCalls
    /\ w' = o.w
    /\ ret' = [op |-> op, nBits |-> nBits, val |-> val, err |-> o.err, pre |-> w]
    /\ hist' = [bits |-> IF o.err = "nil" THEN hist.bits \o LowBits(val, nBits)
                         ELSE hist.bits,
                calls |-> hist.calls + 1,
                flushes |-> hist.flushes + (IF op = "Flush" THEN 1 ELSE 0)]
    /\ UNCHANGED <<r, pc>>

CallWriteBit ==
    /\ ret = NoRet
    /\ \E bit \in BitsTried : WReturned("WriteBit", 1, bit, WriteBit(w, bit))

CallWriteNBitsOfUint8 ==
    /\ ret = NoRet
    /\ \E nBits \in 0..(8 + Over), k \in 1..NumValues :
           WReturned("WriteNBitsOfUint8", nBits, Conv(ValueTried(k), 32, 8),
                     WriteNBitsOfUint8(w, nBits, Conv(ValueTried(k), 32, 8)))

CallWriteNBitsOfUint16 ==
    /\ ret = NoRet
    /\ \E nBits \in 0..(16 + Over), k \in 1..NumValues :
           WReturned("WriteNBitsOfUint16", nBits, Conv(ValueTried(k), 32, 16),
                     WriteNBitsOfUint16(w, nBits, Conv(ValueTried(k), 32, 16)))

CallWriteNBitsOfUint32 ==
    /\ ret = NoRet
    /\ \E nBits \in 0..(32 + Over), k \in 1..NumValues :
           WReturned("WriteNBitsOfUint32", nBits, ValueTried(k),
                     WriteNBitsOfUint32(w, nBits, ValueTried(k)))

CallFlush ==
    /\ ret = NoRet
    /\ WReturned("Flush", 0, Zero(8), Flush(w))

Next ==
    \/ CallReadBit
    \/ CallReadNBitsAsUint8
    \/ CallReadNBitsAsUint16BE
    \/ CallReadNBitsAsUint32BE
    \/ CallReadNBitsAsUint64BE
    \/ CallReadNBitsAsInt32BE
    \/ CallReadNBits
    \/ TakeResult

Spec == Init /\ [][Next]_vars

\* a Reader over any source: one as in Init, or one that hands out StallAt
\* bytes or more and then returns once 0, nil
InitAny ==
    \/ Init
    \/ /\ \E len \in SrcLens, chunk \in 0..MaxChunk, opt \in 0..MaxBufferSize :
             r = NewReader([Source(1, len, chunk) EXCEPT !.stall = Min(StallAt, len)], opt)
       /\ w = NewWriter(<<>>)
       /\ ret = NoRet
       /\ hist = NoHist
       /\ pc = [session |-> "reader"]

SpecAny == InitAny /\ [][Next]_vars

\* a Reader over a source that comes to its end, or over one whose Reads
\* return an error from the first on, or from FailAt bytes on (or from its
\* end, if it is shorter)
InitErr ==
    /\ \E len \in SrcLens, chunk \in 0..MaxChunk, opt \in 0..MaxBufferSize,
          fail \in {-1, 0, FailAt} :
           r = NewReader([Source(1, len, chunk) EXCEPT !.fail = Min(fail, len)], opt)
    /\ w = NewWriter(<<>>)
    /\ ret = NoRet
    /\ hist = NoHist
    /\ pc = [session |-> "reader"]

SpecErr == InitErr /\ [][Next]_vars

\* the Writer alone
NoSource ==
    [k |-> 0, data |-> <<>>, len |-> 0, pos |-> 0, chunk |-> 0, stall |-> -1, fail |-> -1]

InitW ==
    /\ r = NewReader(NoSource, 0)
    /\ w = NewWriter(<<>>)
    /\ ret = NoRet
    /\ hist = NoHist
    /\ pc = [session |-> "writer"]

NextW ==
    \/ CallWriteBit
    \/ CallWriteNBitsOfUint8
    \/ CallWriteNBitsOfUint16
    \/ CallWriteNBitsOfUint32
    \/ CallFlush
    \/ TakeResult

SpecW == InitW /\ [][NextW]_vars

\* a Writer over a sink that fails after it has taken 0..MaxRoom bytes
InitSink ==
    /\ r = NewReader(NoSource, 0)
    /\ \E room \in 0..MaxRoom, mode \in SinkModes :
           w = [NewWriter(<<>>) EXCEPT !.sink = [room |-> room, mode |-> mode]]
    /\ ret = NoRet
    /\ hist = NoHist
    /\ pc = [session |-> "writer"]

SpecSink == InitSink /\ [][NextW]_vars

\* a program that uses a Reader, or one that uses a Writer
InitRW == Init \/ InitW
NextRW == Next \/ NextW
SpecRW == InitRW /\ [][NextRW]_vars

(************************* what the claims speak of ************************)
\* the number of bits of the stream the Reader has consumed
AbsPos(rd) == 8 * (rd.src.pos - rd.bufLen + rd.currByteIndex) + (7 - rd.currBitIndex)

\* bit p (from 0) of the stream: the most significant bit of a byte comes first
StreamBit(src, p) == (SrcAt(src, (p \div 8) + 1) \div Pow2(7 - (p % 8))) % 2

\* the word whose binary digits are the n bits from bit p on, first bit highest
StreamWord(src, p, n) == {n - 1 - j : j \in {i \in 0..(n - 1) : StreamBit(src, p + i) = 1}}

\* the bits left in the loaded buffer, and in the whole stream
BitsInBuf(rd) ==
    IF rd.bufNil \/ rd.currByteIndex >= rd.bufLen THEN 0
    ELSE 8 * (rd.bufLen - rd.currByteIndex) - (7 - rd.currBitIndex)
BitsLeft(rd) == 8 * rd.src.len - AbsPos(rd)

WidthOf(op) ==
    CASE op = "ReadNBitsAsUint8" -> 8
      [] op = "ReadNBitsAsUint16BE" -> 16
      [] op = "ReadNBitsAsUint32BE" -> 32
      [] op = "ReadNBitsAsUint64BE" -> 64
      [] op = "WriteNBitsOfUint8" -> 8
      [] op = "WriteNBitsOfUint16" -> 16
      [] op = "WriteNBitsOfUint32" -> 32
      [] OTHER -> 0

UintReads == {"ReadNBitsAsUint8", "ReadNBitsAsUint16BE", "ReadNBitsAsUint32BE",
              "ReadNBitsAsUint64BE"}

(********************************* claims **********************************)
\* C1: ReadNBitsAsUint8/16BE/32BE/64BE(nBits), 1 <= nBits <= W, called with the
\* cursor inside a loaded buffer that holds at least nBits more bits, returns
\* without error the word whose digits are the next nBits bits of the stream,
\* first-read bit highest and nothing above bit nBits-1, and leaves the cursor
\* exactly nBits bits further.
C1_UintReadValue ==
    (/\ ret.op \in UintReads
     /\ ret.nBits >= 1 /\ ret.nBits <= WidthOf(ret.op)
     /\ BitsInBuf(ret.pre) >= ret.nBits)
    => /\ ret.err = "nil"
       /\ ret.val = StreamWord(ret.pre.src, AbsPos(ret.pre), ret.nBits)
       /\ AbsPos(r) = AbsPos(ret.pre) + ret.nBits

\* a 64-bit read of 61 bits that starts inside a byte and ends inside another
C1_Witness ==
    /\ ret.op = "ReadNBitsAsUint64BE" /\ ret.nBits = 61
    /\ ret.pre.currBitIndex = 4 /\ ret.pre.currByteIndex = 1
    /\ BitsInBuf(ret.pre) >= 61
    /\ ret.err = "nil" /\ 60 \in ret.val /\ 0 \notin ret.val

\* C2: ReadBit returns, as 0 or 1 in the least significant bit, the bit of the
\* current byte at bit_index, and advances the cursor by one bit: the k-th
\* bit read is bit k of the source, most significant bit of each byte first.
C2_ReadBit ==
    (ret.op = "ReadBit" /\ ret.err = "nil")
    => LET at == fillBufIfNeeded(ret.pre).r
       IN /\ ret.val \in {{}, {0}}
          /\ (0 \in ret.val) <=> (at.currBitIndex \in ToWord(BufAt(at, at.currByteIndex), 8))
          /\ (0 \in ret.val) <=> (StreamBit(ret.pre.src, AbsPos(ret.pre)) = 1)
          /\ AbsPos(r) = AbsPos(ret.pre) + 1

\* ReadBit has returned a 1 from the middle of the second byte buffered
C2_Witness ==
    /\ ret.op = "ReadBit" /\ ret.err = "nil" /\ ret.val = {0}
    /\ ret.pre.currByteIndex = 1 /\ ret.pre.currBitIndex = 4

\* the bits of the bytes the sink has taken, most significant bit of a byte first
SinkBits(dst) ==
    [i \in 1..(8 * Len(dst)) |-> (dst[((i - 1) \div 8) + 1] \div Pow2(7 - ((i - 1) % 8))) % 2]

\* the filled bits of the accumulator: bit 7 down to bit currBitIndex + 1
AccBits(wr) == [i \in 1..(7 - wr.currBitIndex) |-> IF (8 - i) \in wr.currByte THEN 1 ELSE 0]

\* the last k elements of a sequence
LastBits(sq, k) == SubSeq(sq, Len(sq) - k + 1, Len(sq))

\* the byte whose top Len(bits) bits are bits, the others 0
TopByte(bits) == ToNat({8 - i : i \in {j \in 1..Len(bits) : bits[j] = 1}})

\* the n bits of the stream from bit p on, packed into ceil(n/8) bytes, left
\* aligned, the unused low bits of the last byte 0
StreamBytes(src, p, n) ==
    [j \in 1..((n + 7) \div 8) |->
        ToNat({7 - i : i \in {h \in 0..7 : /\ 8 * (j - 1) + h < n
                                           /\ StreamBit(src, p + 8 * (j - 1) + h) = 1}})]

\* the bytes with the unused low bits of the last byte of an n-bit array set
PadOnes(bytes, n) ==
    [j \in 1..Len(bytes) |->
        IF j = Len(bytes)
        THEN ToNat(ToWord(bytes[j], 8) \cup (0..(8 * Len(bytes) - n - 1)))
        ELSE bytes[j]]

UintWrites == {"WriteNBitsOfUint8", "WriteNBitsOfUint16", "WriteNBitsOfUint32"}
AllReads == UintReads \cup {"ReadBit", "ReadNBitsAsInt32BE", "ReadNBits"}

\* C3: after any sequence of WriteBit / WriteNBitsOfUint8 / WriteNBitsOfUint16 /
\* WriteNBitsOfUint32 calls (no Flush called), the bits of the bytes in the sink
\* followed by the filled bits of the accumulator are the concatenation, in
\* call order, of the low nBits bits of each value written by a call that
\* returned nil, most significant of them first; the bits of a value above
\* bit nBits-1 are in none of them.
C3_Concatenation ==
    (pc.session = "writer" /\ hist.flushes = 0)
    => SinkBits(w.dst) \o AccBits(w) = hist.bits

\* 27 bits of a 32-bit value written after 3 bits: 3 bytes in the sink and 6
\* bits in the accumulator
C3_Witness ==
    /\ ret.op = "WriteNBitsOfUint32" /\ ret.nBits = 27 /\ ret.err = "nil"
    /\ ret.pre.currBitIndex = 4 /\ hist.flushes = 0
    /\ Len(w.dst) = 3 /\ w.currBitIndex = 1 /\ Len(hist.bits) = 30

\* C5: ReadNBits(nBits, no options), nBits >= 1, with at least nBits bits in
\* the loaded buffer, returns ceil(nBits/8) bytes whose first nBits bits are
\* the next nBits bits of the stream and whose other bits are 0.
C5_ReadNBitsValue ==
    (/\ ret.op = "ReadNBits" /\ ret.opt = NilOpt
     /\ ret.nBits >= 1 /\ BitsInBuf(ret.pre) >= ret.nBits)
    => /\ ret.err = "nil"
       /\ ret.val = StreamBytes(ret.pre.src, AbsPos(ret.pre), ret.nBits)

\* C6: ReadNBits(nBits, PadOne), nBits not a multiple of 8, returns what it
\* returns without PadOne but with the unused low bits of the last byte all 1.
C6_PadOne ==
    (/\ ret.op = "ReadNBits" /\ ~ret.opt.isNil /\ ret.opt.PadOne
     /\ ret.nBits % 8 # 0 /\ BitsInBuf(ret.pre) >= ret.nBits)
    => /\ ret.err = "nil"
       /\ ret.val = PadOnes(ReadNBits(ret.pre, ret.nBits, NilOpt).val, ret.nBits)

\* ReadNBits(nBits) called with rb bits left in the current byte loses its
\* last fragment: the fragment is shorter than the room left in the byte
\* being assembled, so that bitsToRead - (8 - tempBit) wraps around in uint8
LostFragment(nBits, rb) ==
    LET first == IF nBits <= rb THEN nBits ELSE rb
        tempBit == IF first = 8 THEN 0 ELSE first
        last == (nBits - first) % 8
    IN last >= 1 /\ last < 8 - tempBit

\* what ReadNBits does do without options: the length is always ceil(nBits/8),
\* and the bytes are those of C5 whenever the last fragment is not lost
C5_HoldsUnlessLost ==
    (/\ ret.op = "ReadNBits" /\ ret.opt = NilOpt
     /\ ret.nBits >= 1 /\ BitsInBuf(ret.pre) >= ret.nBits)
    => /\ ret.err = "nil"
       /\ Len(ret.val) = (ret.nBits + 7) \div 8
       /\ ~LostFragment(ret.nBits, ret.pre.currBitIndex + 1)
          => ret.val = StreamBytes(ret.pre.src, AbsPos(ret.pre), ret.nBits)

\* what ReadNBits does do with PadOne: for no nBits that is not a multiple of
\* 8 are the unused bits of the last byte all 1
C6_NeverPadded ==
    (/\ ret.op = "ReadNBits" /\ ~ret.opt.isNil /\ ret.opt.PadOne
     /\ ret.nBits % 8 # 0 /\ BitsInBuf(ret.pre) >= ret.nBits)
    => /\ ret.err = "nil"
       /\ ret.val # PadOnes(ReadNBits(ret.pre, ret.nBits, NilOpt).val, ret.nBits)

\* C8: a Flush called with k pending bits, 1 <= k <= 7, that returns nil has
\* written one byte to the sink, whose top k bits are the pending bits in the
\* order written (the last k bits written) and whose low 8-k bits are 0, and
\* leaves the accumulator 0x00 and bit_index 7.
C8_FlushPending ==
    (/\ pc.session = "writer" /\ ret.op = "Flush" /\ ret.err = "nil"
     /\ ret.pre.currBitIndex < 7)
    => LET k == 7 - ret.pre.currBitIndex
       IN /\ w.dst = Append(ret.pre.dst, TopByte(LastBits(hist.bits, k)))
          /\ w.currByte = Zero(8)
          /\ w.currBitIndex = 7

\* Flush after the three bits 111: the byte 0xe0 is in the sink
C8_Witness ==
    /\ ret.op = "Flush" /\ ret.err = "nil" /\ ret.pre.currBitIndex = 4
    /\ ret.pre.currByte = {5, 6, 7}
    /\ w.dst = <<224>> /\ w.currBitIndex = 7

\* C9: once all 8*k bits of a source of k bytes are consumed, a read of at
\* least one bit returns an error; ReadBit returns nil exactly as long as
\* fewer than 8*k bits are consumed (on the source {0xAA}: the first eight
\* calls succeed, the ninth fails).
C9_Exhaustion ==
    /\ (/\ ret.op \in AllReads /\ ret.nBits >= 1
        /\ AbsPos(ret.pre) = 8 * ret.pre.src.len)
       => ret.err \notin {"nil", "panic"}
    /\ (pc.session = "reader" /\ ret.op = "ReadBit")
       => /\ ret.err \in {"nil", "EOF"}
          /\ (ret.err = "nil") <=> (AbsPos(ret.pre) < 8 * ret.pre.src.len)

\* the ninth ReadBit on the one-byte source {0xAA} has returned io.EOF
C9_Witness ==
    /\ ret.op = "ReadBit" /\ ret.err = "EOF"
    /\ ret.pre.src.len = 1 /\ SrcAt(ret.pre.src, 1) = 170
    /\ AbsPos(ret.pre) = 8 /\ r.currByteIndex = 1

\* C10: ReadNBitsAsUint8 / Uint16BE / Uint32BE / Uint64BE and WriteNBitsOfUint8
\* / Uint16 / Uint32 called with nBits above their width return an error and
\* leave the Reader (source position, buffer, cursor) or the Writer
\* (accumulator, bit index, sink) as it was.
C10_WidthExceeded ==
    /\ (pc.session = "reader" /\ ret.op \in UintReads /\ ret.nBits > WidthOf(ret.op))
       => (ret.err = "width" /\ r = ret.pre)
    /\ (pc.session = "writer" /\ ret.op \in UintWrites /\ ret.nBits > WidthOf(ret.op))
       => (ret.err = "width" /\ w = ret.pre)

\* ReadNBitsAsUint16BE(17) called before any byte is loaded
C10_Witness ==
    /\ ret.op = "ReadNBitsAsUint16BE" /\ ret.nBits = 17 /\ ret.err = "width"
    /\ ret.pre.bufNil /\ r.bufNil /\ r.src.pos = 0

(************** writing, flushing and reading back what was written ********)
\* the 64-bit values tried: 0xffffffff89abcdef, 0x5ac3960fffffffff, ...
Value64(k) == ValueTried(k) \cup {i + 32 : i \in ValueTried(k + 1)}

\* the filler bits written before the value: the low bits of 0xa5
Filler == {0, 2, 5, 7}

RTWidths == {8, 16, 32, 64}

\* the write and the read operation of width W
WriteUint(wr, W, nBits, val) ==
    CASE W = 8 -> WriteNBitsOfUint8(wr, nBits, Conv(val, 64, 8))
      [] W = 16 -> WriteNBitsOfUint16(wr, nBits, Conv(val, 64, 16))
      [] W = 32 -> WriteNBitsOfUint32(wr, nBits, Conv(val, 64, 32))
      [] OTHER -> WriteNBitsOfUint64(wr, nBits, val)

ReadUint(rd, W, nBits) ==
    CASE W = 8 -> ReadNBitsAsUint8(rd, nBits)
      [] W = 16 -> ReadNBitsAsUint16BE(rd, nBits)
      [] W = 32 -> ReadNBitsAsUint32BE(rd, nBits)
      [] OTHER -> ReadNBitsAsUint64BE(rd, nBits)

\* a round trip writes s filler bits and then nBits bits of a value v < 2^nBits
\* with the operation of width W (kind "uint"), or the first nBits bits of a
\* left-aligned, zero-padded byte array with WriteNBits on a fresh Writer
\* (kind "bytes"); ok says that every call so far returned nil
InitRT ==
    /\ r = NewReader(NoSource, 0)
    /\ w = NewWriter(<<>>)
    /\ ret = NoRet
    /\ hist = NoHist
    /\ \/ \E s \in 0..7, W \in RTWidths, k \in 1..NumValues :
            \E nBits \in 1..W :
               pc = [session |-> "roundtrip", kind |-> "uint", step |-> "fill",
                     s |-> s, W |-> W, nBits |-> nBits,
                     val |-> And(Value64(k), LowMask(nBits, 64), 64),
                     bytes |-> <<>>, ok |-> TRUE]
       \/ \E nBits \in 1..MaxNBits, k \in 1..NumContents :
               pc = [session |-> "roundtrip", kind |-> "bytes", step |-> "fill",
                     s |-> 0, W |-> 0, nBits |-> nBits, val |-> Zero(64),
                     bytes |-> StreamBytes(Source(k, SrcLen, 0), 0, nBits),
                     ok |-> TRUE]

\* a call of the Writer in a round trip returns
RTWrote(o, next) ==
    /\ w' = o.w
    /\ pc' = [pc EXCEPT !.step = next, !.ok = pc.ok /\ o.err = "nil"]
    /\ UNCHANGED <<r, ret, hist>>

RTFill ==
    /\ pc.session = "roundtrip" /\ pc.step = "fill"
    /\ RTWrote(WriteNBitsOfUint8(w, pc.s, Filler), "write")

RTWrite ==
    /\ pc.session = "roundtrip" /\ pc.step = "write"
    /\ RTWrote(IF pc.kind = "uint" THEN WriteUint(w, pc.W, pc.nBits, pc.val)
               ELSE WriteNBits(w, pc.nBits, pc.bytes), "flush")

RTFlush ==
    /\ pc.session = "roundtrip" /\ pc.step = "flush"
    /\ RTWrote(Flush(w), "open")

\* a fresh Reader over the bytes the sink has taken
RTOpen ==
    /\ pc.session = "roundtrip" /\ pc.step = "open"
    /\ \E opt \in 0..MaxBufferSize :
           r' = NewReader([k |-> 0, data |-> w.dst, len |-> Len(w.dst),
                           pos |-> 0, chunk |-> 0, stall |-> -1, fail |-> -1], opt)
    /\ pc' = [pc EXCEPT !.step = "skip"]
    /\ UNCHANGED <<w, ret, hist>>

\* the s filler bits are read back
RTSkip ==
    /\ pc.session = "roundtrip" /\ pc.step = "skip"
    /\ \E o \in {ReadNBitsAsUint8(r, pc.s)} :
           /\ r' = o.r
           /\ pc' = [pc EXCEPT !.step = "read",
                               !.ok = /\ pc.ok /\ o.err = "nil"
                                      /\ o.val = And(Filler, LowMask(pc.s, 8), 8)]
    /\ UNCHANGED <<w, ret, hist>>

RTRead ==
    /\ pc.session = "roundtrip" /\ pc.step = "read"
    /\ \E o \in {IF pc.kind = "uint" THEN ReadUint(r, pc.W, pc.nBits)
                 ELSE ReadNBits(r, pc.nBits, NilOpt)} :
           /\ r' = o.r
           /\ ret' = [op |-> "roundtrip", nBits |-> pc.nBits, val |-> o.val,
                      err |-> o.err, pre |-> r]
    /\ pc' = [pc EXCEPT !.step = "done"]
    /\ UNCHANGED <<w, hist>>

NextRT ==
    \/ RTFill
    \/ RTWrite
    \/ RTFlush
    \/ RTOpen
    \/ RTSkip
    \/ RTRead

SpecRT == InitRT /\ [][NextRT]_vars

\* C4: for every nBits in 1..W (W = 8, 16, 32, 64, so every nBits in 1..64),
\* every value v < 2^nBits tried and every offset s in 0..7: writing s filler
\* bits and then nBits bits of v, flushing, and reading s bits and then nBits
\* bits with the read operation of the same width from a fresh Reader over
\* the output returns v, and no call returns an error.
C4_RoundTrip ==
    (pc.session = "roundtrip" /\ pc.kind = "uint" /\ pc.step = "done")
    => /\ pc.ok
       /\ ret.err = "nil"
       /\ ret.val = pc.val

\* 29 bits of 0x89abcdef written with WriteNBitsOfUint32 after 5 filler bits
\* and read back with ReadNBitsAsUint32BE
C4_Witness ==
    /\ pc.session = "roundtrip" /\ pc.kind = "uint" /\ pc.step = "done"
    /\ pc.W = 32 /\ pc.nBits = 29 /\ pc.s = 5
    /\ 27 \in pc.val /\ 28 \notin pc.val
    /\ Len(w.dst) = 5 /\ ret.err = "nil" /\ ret.val = pc.val

\* C7: for every n >= 1 and every left-aligned, zero-padded array of
\* ceil(n/8) bytes: WriteNBits(n, bytes) on a fresh Writer, Flush, and
\* ReadNBits(n, no options) on a fresh Reader over the output returns bytes.
C7_ByteArrayRoundTrip ==
    (pc.session = "roundtrip" /\ pc.kind = "bytes" /\ pc.step = "done")
    => /\ pc.ok
       /\ ret.err = "nil"
       /\ ret.val = pc.bytes

(************************ the claims on zero-bit calls *********************)
\* the read operations that take a number of bits
MultiBitReads == UintReads \cup {"ReadNBitsAsInt32BE", "ReadNBits"}

\* C11: a multi-bit operation called with nBits = 0 does nothing: each
\* ReadNBitsAs* returns 0 and ReadNBits returns an empty result, without error,
\* and the Reader (source position, buffer, cursor) is as it was, also when
\* the source is used up; each WriteNBitsOf* returns no error and the Writer
\* (accumulator, bit index, sink) is as it was.
C11_ZeroBits ==
    /\ (pc.session = "reader" /\ ret.op \in MultiBitReads /\ ret.nBits = 0)
       => /\ ret.err = "nil"
          /\ IF ret.op = "ReadNBits" THEN ret.val = <<>> ELSE ret.val = {}
          /\ r = ret.pre
    /\ (pc.session = "writer" /\ ret.op \in UintWrites /\ ret.nBits = 0)
       => /\ ret.err = "nil"
          /\ w = ret.pre

\* ReadNBits(0) called after the whole source was consumed and its end met
C11_Witness ==
    /\ ret.op = "ReadNBits" /\ ret.nBits = 0 /\ ret.err = "nil" /\ ret.val = <<>>
    /\ AbsPos(ret.pre) = 8 * ret.pre.src.len /\ ret.pre.src.pos = ret.pre.src.len
    /\ ~ret.pre.bufNil /\ r = ret.pre

(******************** reading in two steps or in one ***********************)
\* C12: after ReadNBitsAsUint8(a) has returned first without error, for every
\* b with a + b <= 8: ReadNBitsAsUint8(b) from the state reached and
\* ReadNBitsAsUint8(a + b) from the state the first call started in return the
\* same error; when that is nil, (first << b) | second is the value of the
\* single read; and both ways leave the same Reader (cursor, buffer, source
\* position). A first call that fails is one that a single read fails with.
C12_Composition ==
    (pc.session = "reader" /\ ret.op = "ReadNBitsAsUint8" /\ ret.nBits <= 8)
    => \A b \in 0..(8 - ret.nBits) :
         \A second \in {ReadNBitsAsUint8(r, b)},
            single \in {ReadNBitsAsUint8(ret.pre, ret.nBits + b)} :
             IF ret.err = "nil"
             THEN /\ second.err = single.err
                  /\ second.r = single.r
                  /\ second.err = "nil"
                     => Or(Shl(ret.val, b, 8), second.val, 8) = single.val
             ELSE single.err = ret.err

\* 3 bits read with 5 left in the byte and a buffer of one byte: a single read
\* of 8 bits from there takes a refill of the buffer
C12_Witness ==
    /\ ret.op = "ReadNBitsAsUint8" /\ ret.nBits = 3 /\ ret.err = "nil"
    /\ ret.pre.currBitIndex = 4 /\ ret.pre.opt = 1 /\ ret.val # Zero(8)
    /\ r.currBitIndex = 1
    /\ ReadNBitsAsUint8(ret.pre, 8).err = "nil"
    /\ ReadNBitsAsUint8(ret.pre, 8).r.src.pos = ret.pre.src.pos + 1

(************************* sources that return no byte *********************)
\* the call starts with a refill of the buffer: it is not turned down for its
\* nBits and the cursor is past the bytes loaded
FirstRefill(rd, op, nBits) ==
    /\ nBits >= 1
    /\ op \in UintReads => nBits <= WidthOf(op)
    /\ op = "ReadNBitsAsInt32BE" => nBits <= 32
    /\ isBufEmpty(rd)

\* what the source returns to that refill
FirstRead(rd) == SrcRead(rd.src, GetBufferSize(rd.opt))

ZeroValue(op) == IF op = "ReadNBits" THEN <<>> ELSE {}

\* C13: when the source's Read returns zero bytes to the refill a public read
\* starts with, with an error or without, the read returns an error and no
\* data: its value is zero / empty.
C13_ZeroByteRead ==
    (/\ pc.session = "reader" /\ ret.op \in AllReads
     /\ FirstRefill(ret.pre, ret.op, ret.nBits)
     /\ FirstRead(ret.pre).n = 0)
    => /\ ret.err # "nil"
       /\ ret.val = ZeroValue(ret.op)

\* what the code does do: zero bytes with an error end the read with that
\* error, no value, and the buffer and cursor as they were
C13_ZeroBytesWithError ==
    (/\ pc.session = "reader" /\ ret.op \in AllReads
     /\ FirstRefill(ret.pre, ret.op, ret.nBits)
     /\ FirstRead(ret.pre).n = 0 /\ FirstRead(ret.pre).err # "nil")
    => /\ ret.err = FirstRead(ret.pre).err
       /\ ret.val = ZeroValue(ret.op)
       /\ r = [ret.pre EXCEPT !.src = FirstRead(ret.pre).src]

\* and zero bytes without an error are taken for a buffer: the read goes on
\* and returns, as data, bits of the zero bytes make() left in the new buffer
C13_ZeroBytesWithoutError ==
    (/\ pc.session = "reader" /\ ret.op = "ReadBit"
     /\ FirstRefill(ret.pre, ret.op, ret.nBits)
     /\ FirstRead(ret.pre).n = 0 /\ FirstRead(ret.pre).err = "nil")
    => /\ ret.err = "nil" /\ ret.val = Zero(8)
       /\ r.bufLen = 0 /\ r.currByteIndex = 0 /\ r.currBitIndex = 6

(***************************** the Reader's cursor *************************)
\* bit_index is in 0..7, byte_index is at most the valid length of the buffer,
\* and equals it only with bit_index = 7
CursorInBuffer(rd) ==
    /\ rd.currBitIndex \in 0..7
    /\ rd.currByteIndex >= 0 /\ rd.currByteIndex <= rd.bufLen
    /\ rd.currByteIndex = rd.bufLen => rd.currBitIndex = 7

\* C14: after any sequence of public operations of the Reader, failed ones
\* included, on any source, the cursor is inside the loaded buffer or just
\* past its valid length at bit_index 7.
C14_CursorInvariant == pc.session = "reader" => CursorInBuffer(r)

\* what the code does do: the cursor is as C14 says unless the buffer loaded
\* is one the source returned no byte for
C14_HoldsInFilledBuffer ==
    (pc.session = "reader" /\ (r.bufNil \/ r.bufLen > 0)) => CursorInBuffer(r)

(********************************* refills *********************************)
\* C15: a public operation of the Reader replaces the buffer only with the
\* cursor at bit_index 7 and byte_index at or past the valid length, so that
\* no unread bit of the old buffer is dropped; and a refill that succeeds
\* leaves the cursor at (0, 7) and the valid length at the number of bytes
\* the source returned.
C15_RefillAtBoundary ==
    pc.session = "reader"
    => /\ ~r.offBoundary
       /\ \A f \in {fillBuf(r)} :
            f.err = "nil"
            => /\ f.r.currByteIndex = 0 /\ f.r.currBitIndex = 7
               /\ f.r.bufLen = FirstRead(r).n
               /\ f.r.buf = FirstRead(r).bytes

(****************** one buffer for the whole source, or many ***************)
\* the Reader that has consumed as many bits as rd of the same source, with a
\* buffer that took the whole source in one Read
Whole(rd) ==
    IF AbsPos(rd) = 0
    THEN NewReader([rd.src EXCEPT !.pos = 0, !.chunk = 0], rd.src.len)
    ELSE [NewReader([rd.src EXCEPT !.pos = rd.src.len, !.chunk = 0], rd.src.len)
            EXCEPT !.buf = [i \in 1..rd.src.len |-> SrcAt(rd.src, i)],
                   !.bufNil = FALSE,
                   !.bufCap = rd.src.len,
                   !.bufLen = rd.src.len,
                   !.currByteIndex = AbsPos(rd) \div 8,
                   !.currBitIndex = 7 - (AbsPos(rd) % 8)]

\* the calls C16 speaks of
BitAndUintReads == UintReads \cup {"ReadBit"}

\* a program that reads bits and unsigned integers only
NextUint ==
    \/ CallReadBit
    \/ CallReadNBitsAsUint8
    \/ CallReadNBitsAsUint16BE
    \/ CallReadNBitsAsUint32BE
    \/ CallReadNBitsAsUint64BE
    \/ TakeResult

SpecUint == Init /\ [][NextUint]_vars

ReadOp(op, rd, nBits) ==
    CASE op = "ReadBit" -> ReadBit(rd)
      [] op = "ReadNBitsAsUint8" -> ReadNBitsAsUint8(rd, nBits)
      [] op = "ReadNBitsAsUint16BE" -> ReadNBitsAsUint16BE(rd, nBits)
      [] op = "ReadNBitsAsUint32BE" -> ReadNBitsAsUint32BE(rd, nBits)
      [] OTHER -> ReadNBitsAsUint64BE(rd, nBits)

\* C16: whatever the buffer size and however the source cuts its bytes into
\* Reads of at least one byte, a ReadBit / ReadNBitsAsUint8 / Uint16BE /
\* Uint32BE / Uint64BE call returns the value and the error that the same call
\* returns on a Reader at the same stream offset whose one buffer holds the
\* whole source, and consumes as many bits; a call of n bits that succeeds
\* returns the bits at the offsets [p, p + n), p the bits consumed before,
\* and leaves p + n consumed; and a call succeeds when n bits are left.
C16_AnyBuffering ==
    (pc.session = "reader" /\ ret.op \in BitAndUintReads)
    => \A ref \in {ReadOp(ret.op, Whole(ret.pre), ret.nBits)} :
         /\ AbsPos(Whole(ret.pre)) = AbsPos(ret.pre)
         /\ ret.val = ref.val
         /\ ret.err = ref.err
         /\ AbsPos(r) = AbsPos(ref.r)
         /\ (ret.err = "nil" /\ ret.nBits >= 1)
            => /\ ret.val = StreamWord(ret.pre.src, AbsPos(ret.pre), ret.nBits)
               /\ AbsPos(r) = AbsPos(ret.pre) + ret.nBits
         /\ (ret.op = "ReadBit" \/ ret.nBits <= WidthOf(ret.op))
            => (ret.err = "nil" <=> ret.nBits <= BitsLeft(ret.pre))

\* 27 bits read from the middle of a byte of a source that hands out one byte
\* per Read: three refills on the way
C16_Witness ==
    /\ ret.op = "ReadNBitsAsUint32BE" /\ ret.nBits = 27 /\ ret.err = "nil"
    /\ ret.pre.src.chunk = 1 /\ ret.pre.opt = 0 /\ ret.pre.currBitIndex = 4
    /\ ret.pre.bufLen = 1 /\ r.src.pos = ret.pre.src.pos + 3
    /\ r.currByteIndex = 0 /\ r.currBitIndex = 1

(************************ the internal-invariant failure *******************)
\* C17: no public operation of the Reader, with any arguments, on any source
\* and buffer size, ends in a panic: mustReadNBitsInCurrentByte is never asked
\* for more bits than the current byte has left, and r.buf is never indexed
\* outside its bounds.
C17_NoPanic ==
    (pc.session = "reader" /\ ret.op \in AllReads) => ret.err # "panic"

\* 61 bits read in one call from a source that returned no byte and no error
\* on the way
C17_Witness ==
    /\ ret.op = "ReadNBitsAsUint64BE" /\ ret.nBits = 61 /\ ret.err = "nil"
    /\ ret.pre.src.stall = StallAt /\ r.src.stall = -1
    /\ ret.pre.currBitIndex = 4 /\ r.src.pos > ret.pre.src.pos + 1

(************************* the Writer's accumulator ************************)
\* the positions of the accumulator that are filled: those above bit_index
Filled(wr) == {i \in 0..7 : i > wr.currBitIndex}

BitAndUintWrites == UintWrites \cup {"WriteBit"}

\* C18: a write operation leaves the filled bits of the accumulator as they
\* were: in the accumulator as long as the byte is not flushed, and in the
\* byte the sink takes when it is; after any sequence of operations of the
\* Writer bit_index is in 0..7; and a Flush, called or made by a write that
\* fills the last bit of a byte, leaves the accumulator 0 and bit_index 7.
C18_AccumulatorStable ==
    pc.session = "writer"
    => /\ w.currBitIndex \in 0..7
       /\ ret.op \in BitAndUintWrites
          => IF Len(w.dst) = Len(ret.pre.dst)
             THEN w.currByte \cap Filled(ret.pre) = ret.pre.currByte \cap Filled(ret.pre)
             ELSE ToWord(w.dst[Len(ret.pre.dst) + 1], 8) \cap Filled(ret.pre)
                      = ret.pre.currByte \cap Filled(ret.pre)
       /\ (ret.op = "Flush" /\ ret.err = "nil")
          => (w.currByte = Zero(8) /\ w.currBitIndex = 7)
       /\ (ret.op \in BitAndUintWrites /\ ret.err = "nil"
           /\ Len(w.dst) > Len(ret.pre.dst) /\ w.currBitIndex = 7)
          => w.currByte = Zero(8)

\* 13 bits of a 16-bit value written after the three bits 111: the first byte
\* the sink takes starts with them, and the second byte ends the write
C18_Witness ==
    /\ ret.op = "WriteNBitsOfUint16" /\ ret.nBits = 13 /\ ret.err = "nil"
    /\ ret.pre.currBitIndex = 4 /\ ret.pre.currByte = {5, 6, 7}
    /\ Len(w.dst) = 2 /\ w.dst[1] >= 224
    /\ w.currBitIndex = 7 /\ w.currByte = Zero(8)

(******************************* signed reads ******************************)
\* the number an int32 stands for, given as the 32-bit word of its two's
\* complement (2^31 is taken off in two halves: it is no 32-bit integer)
Int32(v) ==
    IF 31 \in v THEN (WordSum(v \ {31}, 30) - Pow2(30)) - Pow2(30) ELSE WordSum(v, 30)

\* the number the n bits from bit p of the stream stand for in two's
\* complement, 1 <= n <= 32: the bits after the first as a number, less
\* 2^(n-1) when the first bit is 1. It is v - 2^n for the unsigned value v
\* of the n bits when the first bit is 1, and v when it is 0.
TwosComplement(src, p, n) ==
    LET rest == ToNat(StreamWord(src, p + 1, n - 1))
    IN IF StreamBit(src, p) = 0 THEN rest
       ELSE IF n = 1 THEN -1
       ELSE (rest - Pow2(n - 2)) - Pow2(n - 2)

\* C19: ReadNBitsAsInt32BE(nBits), 1 <= nBits <= 32, with nBits bits left in
\* the stream, returns without error the two's-complement value of the next
\* nBits bits: their unsigned value v when the first bit is 0 and v - 2^nBits
\* when it is 1 (as a 32-bit word: v with the bits nBits..31 set), and the
\* cursor is nBits bits further; with nBits = 0 it returns 0 and nil and
\* leaves the Reader as it was.
C19_SignedRead ==
    (pc.session = "reader" /\ ret.op = "ReadNBitsAsInt32BE")
    => /\ ret.nBits = 0 => (ret.err = "nil" /\ ret.val = Zero(32) /\ r = ret.pre)
       /\ (ret.nBits \in 1..32 /\ BitsLeft(ret.pre) >= ret.nBits)
          => /\ ret.err = "nil"
             /\ Int32(ret.val) = TwosComplement(ret.pre.src, AbsPos(ret.pre), ret.nBits)
             /\ ret.val = StreamWord(ret.pre.src, AbsPos(ret.pre), ret.nBits)
                          \cup (IF StreamBit(ret.pre.src, AbsPos(ret.pre)) = 1
                                THEN ret.nBits..31 ELSE {})
             /\ AbsPos(r) = AbsPos(ret.pre) + ret.nBits

\* 13 bits that start with a 1 in the middle of a byte, read as a negative
\* number
C19_Witness ==
    /\ ret.op = "ReadNBitsAsInt32BE" /\ ret.nBits = 13 /\ ret.err = "nil"
    /\ ret.pre.currBitIndex = 4 /\ 12 \in ret.val /\ 31 \in ret.val
    /\ Int32(ret.val) < 0 /\ Int32(ret.val) >= -4096

(************************* forwardIndecies on its own **********************)
\* the byte indices forwardIndecies is started from
StartBytes == {0, 1}

\* as TestForwardIndecies does: a Reader whose buffer is filled and whose
\* cursor is put at (byte, bit), and the nBits to go forward by
InitFwd ==
    /\ \E k \in 1..NumContents, byte \in StartBytes, bit \in 0..7 :
           r = [fillBuf(NewReader(Source(k, SrcLen, 0), 0)).r
                   EXCEPT !.currByteIndex = byte, !.currBitIndex = bit]
    /\ w = NewWriter(<<>>)
    /\ ret = NoRet
    /\ hist = NoHist
    /\ \E nBits \in 0..MaxForward : pc = [session |-> "forward", nBits |-> nBits]

Forward ==
    /\ pc.session = "forward"
    /\ ret = NoRet
    /\ r' = forwardIndecies(r, pc.nBits)
    /\ ret' = [op |-> "forwardIndecies", nBits |-> pc.nBits, val |-> Zero(8),
               err |-> "nil", pre |-> r]
    /\ UNCHANGED <<w, hist, pc>>

SpecFwd == InitFwd /\ [][Forward]_vars

\* the absolute bit offset of the cursor in the buffer
CursorOffset(rd) == 8 * rd.currByteIndex + (7 - rd.currBitIndex)

\* C20: for every bit_index in 0..7 and every nBits, forwardIndecies(nBits)
\* takes nBits off bit_index when nBits <= bit_index; otherwise, with
\* remaining = bit_index + 1, it adds floor((nBits - remaining) / 8) + 1 to
\* byte_index and sets bit_index to 7 - ((nBits - remaining) mod 8); the
\* absolute bit offset 8 * byte_index + (7 - bit_index) grows by nBits.
C20_ForwardIndecies ==
    (pc.session = "forward" /\ ret.op = "forwardIndecies")
    => LET remaining == ret.pre.currBitIndex + 1
       IN /\ IF ret.nBits <= ret.pre.currBitIndex
             THEN /\ r.currBitIndex = ret.pre.currBitIndex - ret.nBits
                  /\ r.currByteIndex = ret.pre.currByteIndex
             ELSE /\ r.currByteIndex =
                        ret.pre.currByteIndex + ((ret.nBits - remaining) \div 8) + 1
                  /\ r.currBitIndex = 7 - ((ret.nBits - remaining) % 8)
          /\ CursorOffset(r) = CursorOffset(ret.pre) + ret.nBits

\* what the code does do: the offset always grows by nBits, and the cursor is
\* the one of C20 unless nBits - bit_index is a multiple of 8 above 0, where
\* the code leaves bit_index 8 in the byte after the one C20 names
C20_HoldsUnlessMultipleOf8 ==
    (pc.session = "forward" /\ ret.op = "forwardIndecies")
    => LET remaining == ret.pre.currBitIndex + 1
           over == ret.nBits - ret.pre.currBitIndex
       IN /\ CursorOffset(r) = CursorOffset(ret.pre) + ret.nBits
          /\ IF ret.nBits <= ret.pre.currBitIndex
             THEN /\ r.currBitIndex = ret.pre.currBitIndex - ret.nBits
                  /\ r.currByteIndex = ret.pre.currByteIndex
             ELSE IF over % 8 # 0
             THEN /\ r.currByteIndex =
                        ret.pre.currByteIndex + ((ret.nBits - remaining) \div 8) + 1
                  /\ r.currBitIndex = 7 - ((ret.nBits - remaining) % 8)
             ELSE /\ r.currByteIndex =
                        ret.pre.currByteIndex + ((ret.nBits - remaining) \div 8) + 2
                  /\ r.currBitIndex = 8

\* and the public operations never call it so: they go forward by at most the
\* bits left in the current byte
C20_PublicCallsInRange == pc.session = "reader" => r.currBitIndex \in 0..7

(**************************** crossing a byte boundary **********************)
\* C21: from any position (b, i), going forward by exactly the i + 1 bits
\* that are left in the current byte leaves the cursor at (b + 1, 7); one bit
\* from (0, 0) leaves it at (1, 7).
C21_BoundaryCrossing ==
    (/\ pc.session = "forward" /\ ret.op = "forwardIndecies"
     /\ ret.nBits = ret.pre.currBitIndex + 1)
    => /\ r.currByteIndex = ret.pre.currByteIndex + 1
       /\ r.currBitIndex = 7
       /\ CursorOffset(r) = CursorOffset(ret.pre) + ret.nBits

\* pattern 5 of TestForwardIndecies: one bit from (0, 0)
C21_Witness ==
    /\ pc.session = "forward" /\ ret.op = "forwardIndecies" /\ ret.nBits = 1
    /\ ret.pre.currByteIndex = 0 /\ ret.pre.currBitIndex = 0
    /\ r.currByteIndex = 1 /\ r.currBitIndex = 7

\* the same through the public reads: a read of the i + 1 bits left in the
\* current byte of the loaded buffer leaves the cursor at bit 7 of the next
C21_PublicReads ==
    (/\ pc.session = "reader" /\ ret.op \in BitAndUintReads
     /\ ~isBufEmpty(ret.pre) /\ ret.nBits = ret.pre.currBitIndex + 1)
    => /\ ret.err = "nil"
       /\ r.currByteIndex = ret.pre.currByteIndex + 1
       /\ r.currBitIndex = 7

(************************* full bytes go to the sink at once ****************)
\* C22: after any sequence of write operations on a fresh Writer, no Flush
\* called, that wrote N bits in all, the sink holds floor(N / 8) bytes and
\* bit_index is 7 - (N mod 8); an operation that returns nil writes to the
\* sink the bytes whose last bit it fills, floor((pending + nBits) / 8) of
\* them, so that no partially filled byte is written and no full byte is
\* left in the accumulator.
C22_ImmediateFlush ==
    (pc.session = "writer" /\ hist.flushes = 0)
    => /\ Len(w.dst) = Len(hist.bits) \div 8
       /\ w.currBitIndex = 7 - (Len(hist.bits) % 8)
       /\ (ret.op \in BitAndUintWrites /\ ret.err = "nil")
          => Len(w.dst) - Len(ret.pre.dst)
                 = ((7 - ret.pre.currBitIndex) + ret.nBits) \div 8

\* 21 bits of a 32-bit value written after 5 bits: 26 bits in all, 3 bytes
\* in the sink and 2 bits pending
C22_Witness ==
    /\ pc.session = "writer" /\ hist.flushes = 0
    /\ ret.op = "WriteNBitsOfUint32" /\ ret.nBits = 21 /\ ret.err = "nil"
    /\ ret.pre.currBitIndex = 2 /\ Len(ret.pre.dst) = 0
    /\ Len(hist.bits) = 26 /\ Len(w.dst) = 3 /\ w.currBitIndex = 5

(************************ a wide read of a narrow nBits *********************)
\* the widths below that of a read operation
Narrower(op) == {V \in {8, 16, 32} : V < WidthOf(op)}

\* C23: from the same state of the Reader, ReadNBitsAsUint16BE, Uint32BE and
\* Uint64BE called with nBits <= 8 return the value, the error and the Reader
\* (cursor, buffer, source position) that ReadNBitsAsUint8(nBits) returns;
\* Uint32BE and Uint64BE with nBits <= 16 those of Uint16BE; and Uint64BE with
\* nBits <= 32 those of Uint32BE.
C23_Delegation ==
    (pc.session = "reader" /\ ret.op \in UintReads)
    => \A V \in {U \in Narrower(ret.op) : ret.nBits <= U} :
         \A narrow \in {ReadUint(ret.pre, V, ret.nBits)} :
             /\ ret.err = narrow.err
             /\ ret.val = narrow.val
             /\ r = narrow.r

\* 7 bits read as a uint64 across the end of a byte and of a one-byte buffer
C23_Witness ==
    /\ ret.op = "ReadNBitsAsUint64BE" /\ ret.nBits = 7 /\ ret.err = "nil"
    /\ ret.pre.currBitIndex = 2 /\ ret.pre.opt = 1 /\ ret.val # Zero(64)
    /\ r.src.pos = ret.pre.src.pos + 1 /\ r.currBitIndex = 3
    /\ ret.val = ReadNBitsAsUint8(ret.pre, 7).val

(************************* a read that fails on the way *********************)
\* the errors a read passes up from the source
SourceErrors == {"EOF", "srcerr"}

\* the reads C24 speaks of
UintAndByteReads == UintReads \cup {"ReadNBits"}

\* the call consumed bits and then failed: the buffer it started with, or the
\* one its first refill loaded, had bits for its first fragment, and the
\* error came from the source
FailedOnTheWay ==
    /\ pc.session = "reader" /\ ret.op \in UintAndByteReads
    /\ ret.err \in SourceErrors
    /\ fillBufIfNeeded(ret.pre).err = "nil"

\* C24: a ReadNBitsAsUint8 / 16BE / 32BE / 64BE or ReadNBits call that consumes
\* bits and then meets the end of the stream or an error of the source at a
\* later fragment returns that error with the value 0 / an empty result; the
\* cursor is not put back: it stays past the bits consumed, all the source
\* had handed out, and a later read does not return them (it starts at the
\* refill that failed).
C24_NoRollback ==
    FailedOnTheWay
    => /\ ret.val = ZeroValue(ret.op)
       /\ ret.err = FirstRead(r).err
       /\ AbsPos(r) > AbsPos(ret.pre)
       /\ AbsPos(r) < AbsPos(ret.pre) + ret.nBits
       /\ AbsPos(r) = 8 * r.src.pos
       /\ isBufEmpty(r) /\ r.currBitIndex = 7
       /\ \A later \in {ReadBit(r)} :
            later.err = ret.err /\ later.val = Zero(8) /\ later.r = r

\* 27 bits asked for with 13 left before the source's error: 5 and 8 bits
\* are consumed and the third fragment fails
C24_Witness ==
    /\ FailedOnTheWay
    /\ ret.op = "ReadNBitsAsUint32BE" /\ ret.nBits = 27 /\ ret.err = "srcerr"
    /\ ret.pre.currBitIndex = 4 /\ AbsPos(ret.pre) = 3 /\ AbsPos(r) = 16
    /\ ret.val = Zero(32)

(****************************** a sink that fails **************************)
\* the errors Flush returns for the sink: the sink's own, or the one for a
\* count that is not 1
SinkErrors == {"dsterr", "short"}

\* the bytes the call has to hand to the sink: one for Flush, and for a write
\* one for each byte whose last bit it fills
BytesDue(op, wr, nBits) ==
    IF op = "Flush" THEN 1 ELSE ((7 - wr.currBitIndex) + nBits) \div 8

\* the bytes the sink still takes without failing
RoomLeft(wr) ==
    IF Len(wr.dst) >= wr.sink.room THEN 0 ELSE wr.sink.room - Len(wr.dst)

\* the call met a Write of the sink that failed
SinkFailed ==
    /\ pc.session = "writer" /\ ret.op \in BitAndUintWrites \cup {"Flush"}
    /\ ret.op \in UintWrites => ret.nBits <= WidthOf(ret.op)
    /\ ret.pre.sink.room >= 0
    /\ BytesDue(ret.op, ret.pre, ret.nBits) > RoomLeft(ret.pre)

\* byte k (from 0) of the bits pending in wr followed by the low nBits bits
\* of val
ByteDue(wr, nBits, val, k) ==
    ToWord(TopByte(SubSeq(AccBits(wr) \o LowBits(val, nBits), 8 * k + 1, 8 * k + 8)), 8)

\* C25: when a Write of the sink returns an error or a count other than 1,
\* Flush and the write operation that called it return an error; the
\* accumulator and bit_index are not reset: they are as the write left them
\* before the Flush that failed, the accumulator holding the byte that was
\* to go out, with the bits that were in it before and those OR-ed in; and
\* the operation hands no further byte to the sink.
C25_SinkFailure ==
    SinkFailed
    => \A k \in {RoomLeft(ret.pre)} :
         /\ ret.err \in SinkErrors
         /\ ret.err = "short" <=> ret.pre.sink.mode = "short"
         /\ Len(w.dst) = Len(ret.pre.dst) + k
                          + (IF ret.pre.sink.mode = "taken" THEN 1 ELSE 0)
         /\ SubSeq(w.dst, 1, Len(ret.pre.dst)) = ret.pre.dst
         /\ w.currBitIndex = (IF k = 0 THEN ret.pre.currBitIndex ELSE 7)
         /\ w.currByte = (IF k = 0 THEN ret.pre.currByte ELSE Zero(8))
                          \cup (IF ret.op = "Flush" THEN Zero(8)
                                ELSE ByteDue(ret.pre, ret.nBits, ret.val, k))
         /\ ret.pre.currByte \cap Filled(ret.pre) \subseteq
                (IF k = 0 THEN w.currByte ELSE ToWord(w.dst[Len(ret.pre.dst) + 1], 8))

\* 29 bits of a 32-bit value written after 3 bits to a sink that takes 3
\* bytes and then reports a count of 0: the fourth byte stays in the
\* accumulator
C25_Witness ==
    /\ SinkFailed
    /\ ret.op = "WriteNBitsOfUint32" /\ ret.nBits = 29 /\ ret.err = "short"
    /\ ret.pre.currBitIndex = 4 /\ Len(ret.pre.dst) = 0 /\ ret.pre.sink.room = 3
    /\ Len(w.dst) = 3 /\ w.currBitIndex = 7 /\ w.currByte # Zero(8)

C27_FlushOnlyPending ==
    (pc.session = "writer" /\ ret.op = "Flush" /\ ret.err = "nil")
    => /\ ret.pre.currBitIndex = 7 => w.dst = ret.pre.dst
       /\ hist.flushes = 1 => Len(w.dst) = (Len(hist.bits) + 7) \div 8

\* what the code does do: Flush always hands the accumulator to the sink; with
\* nothing pending that is a byte 0x00 more
C27_EmptyFlushWritesZero ==
    (pc.session = "writer" /\ ret.op = "Flush" /\ ret.err = "nil")
    => /\ w.dst = Append(ret.pre.dst, ToNat(ret.pre.currByte))
       /\ ret.pre.currBitIndex = 7 => w.dst = Append(ret.pre.dst, 0)
       /\ hist.flushes = 1 => Len(w.dst) = (Len(hist.bits) \div 8) + 1

\* and the count of C27 is right when the Flush has bits to write
C27_HoldsWhenPending ==
    (/\ pc.session = "writer" /\ ret.op = "Flush" /\ ret.err = "nil"
     /\ hist.flushes = 1 /\ ret.pre.currBitIndex < 7)
    => Len(w.dst) = (Len(hist.bits) + 7) \div 8

(********************* the unfilled bits of the accumulator ****************)
\* the positions of the accumulator that are not filled yet: bit_index and
\* those below it
Unfilled(wr) == {i \in 0..7 : i <= wr.currBitIndex}

\* C28: after any sequence of operations of the Writer, from NewWriter on,
\* over a sink that takes every byte, the bits of the accumulator at the
\* positions <= bit_index are 0, whatever bits the values written had above
\* their nBits.
C28_UnfilledZero ==
    pc.session = "writer" => w.currByte \cap Unfilled(w) = {}

\* 11 bits of 0xffff written after 3 bits: 6 bits are pending, all 1, and the
\* two bits below them are 0
C28_Witness ==
    /\ pc.session = "writer"
    /\ ret.op = "WriteNBitsOfUint16" /\ ret.nBits = 11 /\ ret.val = 0..15
    /\ ret.err = "nil" /\ ret.pre.currBitIndex = 4
    /\ w.currBitIndex = 1 /\ w.currByte = 2..7

(*************************** the size of a ReadNBits ***********************)
\* C29: from every bit_index in 0..7 and for every nBits >= 1, a ReadNBits
\* that returns nil, with PadOne or without options, has moved the cursor
\* exactly nBits bits on and returns exactly ceil(nBits / 8) bytes, wherever
\* in a byte the read starts and ends; and it returns nil when the loaded
\* buffer holds nBits more bits and AlignRight is not set.
C29_ReadNBitsSize ==
    (pc.session = "reader" /\ ret.op = "ReadNBits" /\ ret.nBits >= 1)
    => /\ ret.err = "nil"
          => /\ AbsPos(r) = AbsPos(ret.pre) + ret.nBits
             /\ Len(ret.val) = (ret.nBits + 7) \div 8
       /\ (BitsInBuf(ret.pre) >= ret.nBits /\ (ret.opt.isNil \/ ~ret.opt.AlignRight))
          => ret.err = "nil"

\* 18 bits read with PadOne from bit 2 of a byte to bit 0 of another, through
\* two refills of a one-byte buffer: 3 bytes
C29_Witness ==
    /\ ret.op = "ReadNBits" /\ ret.nBits = 18 /\ ret.err = "nil"
    /\ ~ret.opt.isNil /\ ret.opt.PadOne
    /\ ret.pre.currBitIndex = 2 /\ ret.pre.opt = 1 /\ ~isBufEmpty(ret.pre)
    /\ Len(ret.val) = 3 /\ r.currBitIndex = 0
    /\ r.src.pos = ret.pre.src.pos + 2

(********************* a read that fails at its first refill ***************)
\* the call of ret made again on the Reader rd
SameCall(rd) ==
    CASE ret.op = "ReadNBits" -> ReadNBits(rd, ret.nBits, ret.opt)
      [] ret.op = "ReadNBitsAsInt32BE" -> ReadNBitsAsInt32BE(rd, ret.nBits)
      [] OTHER -> ReadOp(ret.op, rd, ret.nBits)

\* the call began with a refill that the source failed
FailedAtFirstRefill ==
    /\ pc.session = "reader" /\ ret.op \in AllReads
    /\ FirstRefill(ret.pre, ret.op, ret.nBits)
    /\ FirstRead(ret.pre).err # "nil"

\* C30: a read that fails at its first refill, the cursor being past the
\* loaded bytes and the source at its end or in error, returns the source's
\* error and the zero value and leaves the buffer, its valid length,
\* byte_index and bit_index as they were; the same call made again, the source
\* failing still, returns the same error and changes nothing either.
C30_FailedRefillFrame ==
    FailedAtFirstRefill
    => /\ ret.err = FirstRead(ret.pre).err
       /\ ret.val = ZeroValue(ret.op)
       /\ r.buf = ret.pre.buf /\ r.bufNil = ret.pre.bufNil
       /\ r.bufCap = ret.pre.bufCap /\ r.bufLen = ret.pre.bufLen
       /\ r.currByteIndex = ret.pre.currByteIndex
       /\ r.currBitIndex = ret.pre.currBitIndex
       /\ \A again \in {SameCall(r)} :
            again.err = ret.err /\ again.val = ret.val /\ again.r = r

\* 13 bits asked of a Reader that has consumed the two bytes a failing
\* source handed out: the buffer still holds the last byte loaded
C30_Witness ==
    /\ FailedAtFirstRefill
    /\ ret.op = "ReadNBitsAsUint16BE" /\ ret.nBits = 13 /\ ret.err = "srcerr"
    /\ ~ret.pre.bufNil /\ ret.pre.bufLen = 1 /\ ret.pre.currByteIndex = 1
    /\ ret.pre.src.pos = 2 /\ r.buf = ret.pre.buf /\ Len(r.buf) = 1
    /\ r.currByteIndex = 1 /\ r.currBitIndex = 7

====
